---- MODULE Spec2Model ----
(***************************************************************************)
(* A model of embedoc's in-place rewrite engine: the marker parser, the    *)
(* frontmatter splitter, the inline-datasource builder, processFile,       *)
(* build and the dependency graph.                                         *)
(*                                                                         *)
(* Text is a sequence of lexemes, one unit of length each:                 *)
(*   "O"      the comment style's start delimiter  (<!--  /*  //  #  --)   *)
(*   "C"      the comment style's end delimiter    (-->  */), only in      *)
(*            delimited styles                                             *)
(*   "@a"     the tag @embedoc:a (a complete name, a word boundary after)  *)
(*   "@end"   the tag @embedoc:end                                         *)
(*   "$p.v"   the tag @embedoc-data:p.v ; "$end" the tag @embedoc-data:end *)
(*   "It"     the attribute  inline="true" ; "If" the attribute            *)
(*            inline="false"                                               *)
(*   "N" "R" "S"   \n, \r and a blank                                      *)
(*   "D"      the frontmatter delimiter ---                                *)
(*   "k"      a frontmatter line  key: value                               *)
(*   anything else: one character of prose that is neither white space    *)
(*            nor part of a delimiter or tag                               *)
(* Offsets are 0-based as in the source: Slice(s, a, b) is s.slice(a, b).  *)
(***************************************************************************)
EXTENDS Integers, Sequences, FiniteSets, TLC

\* ---------------------------------------------------------------- bounds

\* the builds run in succession on the same files
MaxBuilds == 2

\* the pieces a document is made of
MaxSegs == 4

\* the pieces a document with inline data is made of
MaxDecls == 3

\* a maxBytes below the size of the largest declaration
TightMaxBytes == 2

\* the file-system events of a watch session
MaxEvents == 3

\* the parts of the path of a placeholder
MaxPath == 3

\* ------------------------------------------------------------------ text

Min(a, b) == IF a < b THEN a ELSE b

Max(a, b) == IF a > b THEN a ELSE b

\* String.prototype.slice(a, b) for 0 <= a, b: both ends clamp to the length
Slice(s, a, b) == SubSeq(s, Min(a, Len(s)) + 1, Min(b, Len(s)))

\* String.prototype.slice(a)
SliceFrom(s, a) == Slice(s, a, Len(s))

\* the lexeme at 0-based offset i
At(s, i) == s[i + 1]

\* \s of the regular expressions
IsSpace(t) == t \in {"N", "R", "S"}

\* the line terminators: what . does not match and what $ (flag m) stops at
IsLineTerm(t) == t \in {"N", "R"}

\* \s* (greedy) from offset p: the offset of the first non-space lexeme
RECURSIVE SkipSpace(_, _)
SkipSpace(s, p) ==
  IF p < Len(s) /\ IsSpace(At(s, p)) THEN SkipSpace(s, p + 1) ELSE p

\* .* (greedy) from offset p: the offset of the next line terminator, or the end
RECURSIVE SkipLine(_, _)
SkipLine(s, p) ==
  IF p < Len(s) /\ ~IsLineTerm(At(s, p)) THEN SkipLine(s, p + 1) ELSE p

\* the offset of the first lexeme t at or after p, or -1
RECURSIVE IndexOf(_, _, _)
IndexOf(s, t, p) ==
  IF p >= Len(s) THEN -1
  ELSE IF At(s, p) = t THEN p ELSE IndexOf(s, t, p + 1)

\* $ under flag m: the end of the text or just before a line terminator
AtLineEnd(s, p) == p = Len(s) \/ (p < Len(s) /\ IsLineTerm(At(s, p)))

\* ---------------------------------------------------------- comment styles

\* DEFAULT_COMMENT_STYLES: whether the style has a non-empty end delimiter
StyleNames == {"html", "block", "line", "hash", "sql"}

DEFAULT_COMMENT_STYLES ==
  [n \in StyleNames |-> [delimited |-> n \in {"html", "block"}]]

\* getCommentStyle without custom styles: a name outside the table throws
getCommentStyle(styleName) ==
  IF styleName \in StyleNames
  THEN [ok |-> TRUE, style |-> DEFAULT_COMMENT_STYLES[styleName]]
  ELSE [ok |-> FALSE, style |-> [delimited |-> FALSE]]

\* ------------------------------------------------------------- attributes

\* the attribute lexemes: key="value" pairs matched by attrRegex
\* (each stands for a blank and the pair): inline="true", inline="false",
\* format="json", format="text", format="csv", format="xml", id="${p.v}"
AttrTokens == {"It", "If", "Fj", "Ft", "Fc", "Fx", "Pv"}

AttrKey(t) ==
  IF t \in {"It", "If"} THEN "inline" ELSE IF t = "Pv" THEN "id" ELSE "format"

AttrVal(t) ==
  CASE t = "It" -> "true"
    [] t = "Pv" -> "${p.v}"
    [] t = "If" -> "false"
    [] t = "Fj" -> "json"
    [] t = "Ft" -> "text"
    [] t = "Fc" -> "csv"
    [] OTHER -> "xml"

\* result[key] = value
Put(f, k, v) == [x \in (DOMAIN f) \cup {k} |-> IF x = k THEN v ELSE f[x]]

RECURSIVE parseAttributesFrom(_, _, _)
parseAttributesFrom(attrString, i, result) ==
  IF i > Len(attrString) THEN result
  ELSE parseAttributesFrom(attrString, i + 1,
         IF attrString[i] \in AttrTokens
         THEN Put(result, AttrKey(attrString[i]), AttrVal(attrString[i]))
         ELSE result)

\* parseAttributes: every key="value" of the string in order, a later value of
\* a key overwriting an earlier one; anything else is ignored
parseAttributes(attrString) == parseAttributesFrom(attrString, 1, <<>>)

\* ---------------------------------------------------------------- markers

\* the tags @embedoc:<name> whose name is not the reserved word end
NameTags == {"@a", "@b"}

\* match[1] of the start pattern
TagName(t) == IF t = "@a" THEN "a" ELSE "b"

\* startPattern tried at offset i: the offset just after the match (-1: none)
\*   delimited:  O \s* @embedoc:(?!end\b)(\w+) \s* ([^]*?) \s* C
\*   line:       O \s* @embedoc:(?!end\b)(\w+) \s* (.*) $        (flags gm)
StartMatchEnd(content, i, style) ==
  IF ~(i < Len(content) /\ At(content, i) = "O") THEN -1
  ELSE LET j == SkipSpace(content, i + 1)
       IN IF ~(j < Len(content) /\ At(content, j) \in NameTags) THEN -1
          ELSE IF style.delimited
               THEN LET k == IndexOf(content, "C", j + 1)
                    IN IF k = -1 THEN -1 ELSE k + 1
               ELSE SkipLine(content, SkipSpace(content, j + 1))

\* the offset of the name tag of a start match at offset i
StartTagAt(content, i) == SkipSpace(content, i + 1)

\* match[2] of a start match at offset i that ends at offset e
StartAttrString(content, i, e, style) ==
  IF style.delimited
  THEN Slice(content, StartTagAt(content, i) + 1, e - 1)
  ELSE Slice(content, StartTagAt(content, i) + 1, e)

\* startPattern.exec with lastIndex: the leftmost offset >= lastIndex at which
\* the pattern matches (-1: none)
RECURSIVE FindStart(_, _, _)
FindStart(content, style, lastIndex) ==
  IF lastIndex >= Len(content) THEN -1
  ELSE IF StartMatchEnd(content, lastIndex, style) # -1 THEN lastIndex
  ELSE FindStart(content, style, lastIndex + 1)

\* the largest offset e in lo..hi at which $ (flag m) holds, or -1
RECURSIVE LineEndBack(_, _, _)
LineEndBack(s, lo, e) ==
  IF e < lo THEN -1
  ELSE IF AtLineEnd(s, e) THEN e ELSE LineEndBack(s, lo, e - 1)

\* endPattern tried at offset i: the offset just after the match (-1: none)
\*   delimited:  O \s* <endTag> \s* C
\*   line:       O \s* <endTag> \s* $      (flag m, \s* greedy)
\* with endTag @embedoc:end ("@end") or @embedoc-data:end ("$end")
EndMatchEnd(s, i, style, endTag) ==
  IF ~(i < Len(s) /\ At(s, i) = "O") THEN -1
  ELSE LET j == SkipSpace(s, i + 1)
       IN IF ~(j < Len(s) /\ At(s, j) = endTag) THEN -1
          ELSE LET k == SkipSpace(s, j + 1)
               IN IF style.delimited
                  THEN IF k < Len(s) /\ At(s, k) = "C" THEN k + 1 ELSE -1
                  ELSE LineEndBack(s, j + 1, k)

RECURSIVE mutFindEndLast(_, _, _, _)
mutFindEndLast(s, style, i, endTag) ==
  IF i >= Len(s) THEN -1
  ELSE IF mutFindEndLast(s, style, i + 1, endTag) # -1
  THEN mutFindEndLast(s, style, i + 1, endTag)
  ELSE IF EndMatchEnd(s, i, style, endTag) # -1 THEN i ELSE -1

\* endPattern.exec(s): the leftmost match, as its index (-1: none)
RECURSIVE FindEnd(_, _, _, _)
FindEnd(s, style, i, endTag) ==
  IF i >= Len(s) THEN -1
  ELSE IF EndMatchEnd(s, i, style, endTag) # -1 THEN i
  ELSE FindEnd(s, style, i + 1, endTag)

\* the marker record pushed for a start match at startIndex ending at afterStart
MarkerAt(content, style, startIndex, afterStart) ==
  LET remainingContent == SliceFrom(content, afterStart)
      endMatchIndex == FindEnd(remainingContent, style, 0, "@end")
      endMatchLen ==
        EndMatchEnd(remainingContent, endMatchIndex, style, "@end") - endMatchIndex
  IN [startIndex |-> startIndex,
      endIndex |-> afterStart + endMatchIndex + endMatchLen,
      templateName |-> TagName(At(content, StartTagAt(content, startIndex))),
      params |-> parseAttributes(StartAttrString(content, startIndex, afterStart, style)),
      existingContent |-> Slice(remainingContent, 0, endMatchIndex),
      startMarkerLine |-> Slice(content, startIndex, afterStart),
      endMarkerLine |-> Slice(remainingContent, endMatchIndex, endMatchIndex + endMatchLen)]

\* the while loop of parseMarkers from lastIndex on
RECURSIVE parseMarkersFrom(_, _, _)
parseMarkersFrom(content, style, lastIndex) ==
  LET startIndex == FindStart(content, style, lastIndex)
  IN IF startIndex = -1 THEN <<>>
     ELSE LET afterStart == StartMatchEnd(content, startIndex, style)
              found == FindEnd(SliceFrom(content, afterStart), style, 0, "@end") # -1
          IN (IF found THEN <<MarkerAt(content, style, startIndex, afterStart)>> ELSE <<>>)
             \o parseMarkersFrom(content, style, afterStart)

\* parseMarkers(content, commentStyle)
parseMarkers(content, style) == parseMarkersFrom(content, style, 0)

\* ------------------------------------------------------------ frontmatter

\* String.prototype.trim()
RECURSIVE TrimStart(_)
TrimStart(s) == IF s # <<>> /\ IsSpace(Head(s)) THEN TrimStart(Tail(s)) ELSE s

RECURSIVE TrimEnd(_)
TrimEnd(s) ==
  IF s # <<>> /\ IsSpace(s[Len(s)]) THEN TrimEnd(SubSeq(s, 1, Len(s) - 1)) ELSE s

Trim(s) == TrimEnd(TrimStart(s))

\* the offset of the first "\n---" at or after p, or -1
RECURSIVE IndexOfClose(_, _)
IndexOfClose(str, p) ==
  IF p + 1 >= Len(str) THEN -1
  ELSE IF At(str, p) = "N" /\ At(str, p + 1) = "D" THEN p
  ELSE IndexOfClose(str, p + 1)

\* the YAML mapping of a frontmatter block: key k for a line  k: "0"
FrontmatterData(block) ==
  [key \in {block[i] : i \in {j \in 1..Len(block) : block[j] = "k"}} |->
     [t |-> "str", m |-> <<>>, v |-> <<"0">>]]

\* matter(content) of gray-matter: data, the raw block between the delimiters
\* and the content after the closing delimiter less one line break
matter(content) ==
  IF ~(content # <<>> /\ Head(content) = "D")
  THEN [data |-> <<>>, content |-> content, matter |-> <<>>]
  ELSE LET str == Tail(content)
           found == IndexOfClose(str, 0)
           closeIndex == IF found = -1 THEN Len(str) ELSE found
           rest == SliceFrom(str, closeIndex + 2)
           rest1 == IF rest # <<>> /\ Head(rest) = "R" THEN Tail(rest) ELSE rest
           rest2 == IF rest1 # <<>> /\ Head(rest1) = "N" THEN Tail(rest1) ELSE rest1
       IN [data |-> FrontmatterData(Slice(str, 0, closeIndex)),
           content |-> IF found = -1 THEN <<>> ELSE rest2,
           matter |-> Slice(str, 0, closeIndex)]

\* content.replace(/^\n+/, '')
RECURSIVE StripLeadingNewlines(_)
StripLeadingNewlines(s) ==
  IF s # <<>> /\ Head(s) = "N" THEN StripLeadingNewlines(Tail(s)) ELSE s

\* parseFrontmatter(content)
parseFrontmatter(content) ==
  LET parsed == matter(content)
  IN [data |-> parsed.data,
      content |-> StripLeadingNewlines(parsed.content),
      raw |-> IF DOMAIN parsed.data # {} /\ parsed.matter # <<>>
              THEN <<"D", "N">> \o Trim(parsed.matter) \o <<"N", "D", "N">>
              ELSE <<>>]

\* ------------------------------------------------------------ inline data

\* the tags @embedoc-data:<dotted name>
DataNameTags == {"$p", "$p.v", "$q"}

\* match[1]: the dotted name, as its parts between the dots (name.split('.'))
DataName(t) ==
  CASE t = "$p" -> <<"p">>
    [] t = "$p.v" -> <<"p", "v">>
    [] t = "$q" -> <<"q">>
    [] OTHER -> <<"end">>

\* whether \s+ can match at offset p: a blank, or an attribute lexeme's blank
SpaceAt(s, p) == p < Len(s) /\ (IsSpace(At(s, p)) \/ At(s, p) \in AttrTokens)

\* the negative lookahead at the tag at offset j
\*   delimited: (?!end\s*C)     line: (?!end\s*$)
DataLookaheadFails(content, j, style) ==
  /\ At(content, j) = "$end"
  /\ LET k == SkipSpace(content, j + 1)
     IN IF style.delimited
        THEN k < Len(content) /\ At(content, k) = "C"
        ELSE LineEndBack(content, j + 1, k) # -1

\* the data start pattern tried at offset i: the offset after the match, or -1
\*   delimited:  O \s* @embedoc-data:(?!end\s*C)([\w.]+)(?:\s+([^\n]*?))?\s*C
\*   line:       O \s* @embedoc-data:(?!end\s*$)([\w.]+)(?:\s+(.*))?$
DataStartMatchEnd(content, i, style) ==
  IF ~(i < Len(content) /\ At(content, i) = "O") THEN -1
  ELSE LET j == SkipSpace(content, i + 1)
           p == j + 1
       IN IF ~(j < Len(content) /\ At(content, j) \in DataNameTags \cup {"$end"})
          THEN -1
          ELSE IF DataLookaheadFails(content, j, style) THEN -1
          ELSE IF style.delimited
               THEN LET c == IndexOf(content, "C", p)
                        mid == Trim(Slice(content, p, c))
                    IN IF c = -1 THEN -1
                       ELSE IF \E n \in 1..Len(mid) : mid[n] = "N" THEN -1
                       ELSE IF mid # <<>> /\ ~SpaceAt(content, p) THEN -1
                       ELSE c + 1
               ELSE IF p = Len(content) THEN p
                    ELSE IF SpaceAt(content, p)
                         THEN SkipLine(content, SkipSpace(content, p))
                         ELSE -1

RECURSIVE FindDataStart(_, _, _)
FindDataStart(content, style, lastIndex) ==
  IF lastIndex >= Len(content) THEN -1
  ELSE IF DataStartMatchEnd(content, lastIndex, style) # -1 THEN lastIndex
  ELSE FindDataStart(content, style, lastIndex + 1)

\* getLineNumber: content.slice(0, index).split('\n').length
getLineNumber(content, index) ==
  Cardinality({n \in 1..Len(Slice(content, 0, index)) : content[n] = "N"}) + 1

\* Buffer.byteLength: every lexeme counts as one byte
ByteLength(s) == Len(s)

\* the record pushed for a data start match at startIndex ending at afterStart
InlineDataAt(content, style, startIndex, afterStart) ==
  LET remainingContent == SliceFrom(content, afterStart)
      endMatchIndex == FindEnd(remainingContent, style, 0, "$end")
      endMatchEnd == EndMatchEnd(remainingContent, endMatchIndex, style, "$end")
      tagAt == StartTagAt(content, startIndex)
      attrs == parseAttributes(Slice(content, tagAt + 1, afterStart))
      dataContent == Slice(remainingContent, 0, endMatchIndex)
  IN [name |-> DataName(At(content, tagAt)),
      format |-> IF "format" \in DOMAIN attrs THEN attrs["format"] ELSE "yaml",
      content |-> dataContent,
      startLine |-> getLineNumber(content, startIndex),
      endLine |-> getLineNumber(content, afterStart + endMatchEnd),
      byteSize |-> ByteLength(dataContent)]

RECURSIVE parseInlineDataFrom(_, _, _)
parseInlineDataFrom(content, style, lastIndex) ==
  LET startIndex == FindDataStart(content, style, lastIndex)
  IN IF startIndex = -1 THEN <<>>
     ELSE LET afterStart == DataStartMatchEnd(content, startIndex, style)
              isEnd == At(content, StartTagAt(content, startIndex)) = "$end"
              found == FindEnd(SliceFrom(content, afterStart), style, 0, "$end") # -1
          IN (IF ~isEnd /\ found
              THEN <<InlineDataAt(content, style, startIndex, afterStart)>>
              ELSE <<>>)
             \o parseInlineDataFrom(content, style, afterStart)

\* parseInlineDataMarkers(content, commentStyle)
parseInlineDataMarkers(content, style) == parseInlineDataFrom(content, style, 0)

\* ------------------------------------------------------ inline datasources

\* Decoded values: a string, an object or an array (an object whose keys are
\* "0", "1", ...), undefined, or the marker of a thrown error.
Node(t, m, v) == [t |-> t, m |-> m, v |-> v]

StrVal(v) == Node("str", <<>>, v)

Obj(m) == Node("obj", m, <<>>)

Arr(m) == Node("arr", m, <<>>)

Undefined == Node("undefined", <<>>, <<>>)

Thrown == Node("error", <<>>, <<>>)

\* the content lexemes: a quoted scalar, a line  key: "scalar", the code fences
ScalarTokens == {"1", "2"}

PairTokens == {"v:0", "w:9"}

PairKey(t) == IF t = "v:0" THEN "v" ELSE "w"

PairValue(t) == IF t = "v:0" THEN StrVal(<<"0">>) ELSE StrVal(<<"9">>)

\* /^\d+$/.test(s)
IsNumeric(seg) == seg \in {"0", "1", "2"}

\* .replace(/\[(\d+)\]/g, '.$1') on one part of a dotted path: a part with an
\* index becomes two parts
Unbracket(part) == IF part = "rows[0]" THEN <<"rows", "0">> ELSE <<part>>

RECURSIVE ExpandBrackets(_)
ExpandBrackets(path) ==
  IF path = <<>> THEN <<>> ELSE Unbracket(Head(path)) \o ExpandBrackets(Tail(path))

\* parseDotPath on the parts of a dotted path: indices are split off, empty
\* parts are filtered out (numeric parts become array indices, see IsNumeric)
parseDotPath(path) == SelectSeq(ExpandBrackets(path), LAMBDA seg : seg # "")

\* getRootName: the part before the first dot
getRootName(name) == Head(name)

\* resolveDotPath(obj, path) on the parts of the path
RECURSIVE ResolveSegments(_, _)
ResolveSegments(current, segments) ==
  IF segments = <<>> THEN current
  ELSE IF current.t = "undefined" THEN Undefined
  ELSE IF current.t \in {"obj", "arr"} /\ Head(segments) \in DOMAIN current.m
  THEN ResolveSegments(current.m[Head(segments)], Tail(segments))
  ELSE IF current.t = "str" /\ Head(segments) \in {"0"} /\ current.v # <<>>
  THEN ResolveSegments(StrVal(<<Head(current.v)>>), Tail(segments))
  ELSE ResolveSegments(Undefined, Tail(segments))

resolveDotPath(obj, path) == ResolveSegments(obj, parseDotPath(path))

\* setDotPath(obj, path, value) on parsed segments: the object after the
\* assignment, or Thrown (an index in the middle of the path, or a property
\* looked up or created on a primitive)
RECURSIVE SetSegments(_, _, _)
SetSegments(current, segments, value) ==
  IF current.t \notin {"obj", "arr"} THEN Thrown
  ELSE IF Len(segments) = 1
  THEN Node(current.t, Put(current.m, segments[1], value), <<>>)
  ELSE IF IsNumeric(segments[1]) THEN Thrown
  ELSE LET child == IF segments[1] \in DOMAIN current.m
                    THEN current.m[segments[1]]
                    ELSE IF IsNumeric(segments[2]) THEN Arr(<<>>) ELSE Obj(<<>>)
           set == SetSegments(child, Tail(segments), value)
       IN IF set.t = "error" THEN Thrown
          ELSE Node(current.t, Put(current.m, segments[1], set), <<>>)

mutSetDotPathKeepsFirst(obj, path, value) ==
  IF parseDotPath(path) = <<>> \/ resolveDotPath(obj, path).t # "undefined" THEN obj
  ELSE SetSegments(obj, parseDotPath(path), value)

setDotPath(obj, path, value) ==
  IF parseDotPath(path) = <<>> THEN obj
  ELSE SetSegments(obj, parseDotPath(path), value)

\* stripPatterns with DEFAULT_STRIP_PATTERNS: an opening fence at the start
\* and a closing fence at the end are removed
stripPatterns(content) ==
  LET t == Trim(content)
      a == IF t # <<>> /\ Head(t) = "FENCE" THEN TrimStart(Tail(t)) ELSE t
      b == IF a # <<>> /\ a[Len(a)] = "FENCE" THEN SubSeq(a, 1, Len(a) - 1) ELSE a
  IN Trim(b)

\* the lexemes of the text that are not line breaks or blanks
NonSpace(s) == SelectSeq(s, LAMBDA t : ~IsSpace(t))

\* the object of a block of  key: "scalar"  lines, a later key replacing none:
\* a repeated key is a parse error
RECURSIVE PairsObject(_, _)
PairsObject(pairs, m) ==
  IF pairs = <<>> THEN Obj(m)
  ELSE IF PairKey(Head(pairs)) \in DOMAIN m THEN Thrown
  ELSE PairsObject(Tail(pairs), Put(m, PairKey(Head(pairs)), PairValue(Head(pairs))))

\* yaml.load / JSON.parse of the trimmed text: nothing -> {} ; one scalar ->
\* that string; lines of pairs -> an object; anything else is a parse error
LoadStructured(trimmed) ==
  LET toks == NonSpace(trimmed)
  IN IF toks = <<>> THEN Obj(<<>>)
     ELSE IF Len(toks) = 1 /\ toks[1] \in ScalarTokens THEN StrVal(toks)
     ELSE IF \A n \in 1..Len(toks) : toks[n] \in PairTokens THEN PairsObject(toks, <<>>)
     ELSE Thrown

\* the lines of a text that are not blank
RECURSIVE Lines(_, _)
Lines(s, cur) ==
  IF s = <<>> THEN (IF NonSpace(cur) = <<>> THEN <<>> ELSE <<cur>>)
  ELSE IF Head(s) = "N"
  THEN (IF NonSpace(cur) = <<>> THEN <<>> ELSE <<cur>>) \o Lines(Tail(s), <<>>)
  ELSE Lines(Tail(s), Append(cur, Head(s)))

\* a row of parseCSV / parseMarkdownTable: every header cell with the row's
\* cell at the same position, '' when the row is shorter
RowObject(headers, values) ==
  Obj([h \in {headers[n] : n \in 1..Len(headers)} |->
        LET idx == CHOOSE n \in 1..Len(headers) :
                     headers[n] = h /\ \A k \in n + 1..Len(headers) : headers[k] # h
        IN IF idx <= Len(values) THEN StrVal(<<values[idx]>>) ELSE StrVal(<<>>)])

\* the key of array index n, and back
IndexKey(n) == CASE n = 0 -> "0" [] n = 1 -> "1" [] OTHER -> "2"

KeyIndex(k) == CASE k = "0" -> 0 [] k = "1" -> 1 [] OTHER -> 2

\* parseCSV / parseMarkdownTable: the first non-blank line is the header, every
\* other non-blank line a record; each lexeme of a line is one cell
ParseRows(trimmed) ==
  LET lines == Lines(trimmed, <<>>)
  IN IF lines = <<>> THEN Arr(<<>>)
     ELSE Arr([k \in {IndexKey(n - 1) : n \in 1..Len(lines) - 1} |->
                RowObject(NonSpace(lines[1]), NonSpace(lines[KeyIndex(k) + 2]))])

\* parseInlineContent(content, format, options)
parseInlineContent(content, format, stripCodeFences) ==
  LET processed == IF stripCodeFences THEN stripPatterns(content) ELSE content
      trimmed == Trim(processed)
  IN CASE format \in {"yaml", "json"} -> LoadStructured(trimmed)
       [] format \in {"csv", "table"} -> ParseRows(trimmed)
       [] OTHER -> StrVal(trimmed)

\* DEFAULT_CONFIG.maxBytes
DefaultMaxBytes == 10240

\* DEFAULT_CONFIG.allowedFormats
DefaultAllowedFormats == {"yaml", "json", "csv", "table", "text"}

\* propertyPath '' (the parts of the empty string)
RootPath == <<"">>

\* the order of localeCompare on the parts of two property paths
Rank(seg) ==
  CASE seg = "" -> 0 [] seg = "0" -> 1 [] seg = "1" -> 2 [] seg = "2" -> 3
    [] seg = "v" -> 4 [] seg = "w" -> 5 [] OTHER -> 6

RECURSIVE localeCompare(_, _)
localeCompare(a, b) ==
  IF a = <<>> /\ b = <<>> THEN 0
  ELSE IF a = <<>> THEN -1
  ELSE IF b = <<>> THEN 1
  ELSE IF Rank(Head(a)) < Rank(Head(b)) THEN -1
  ELSE IF Rank(Head(a)) > Rank(Head(b)) THEN 1
  ELSE localeCompare(Tail(a), Tail(b))

\* the comparator of the constructor's sort
CompareLocations(a, b) ==
  IF a.propertyPath = RootPath THEN -1
  ELSE IF b.propertyPath = RootPath THEN 1
  ELSE localeCompare(a.propertyPath, b.propertyPath)

\* insertion of x into a sorted list: before the first element it compares
\* below, after the elements it compares equal to
RECURSIVE InsertLocation(_, _)
InsertLocation(sorted, x) ==
  IF sorted = <<>> THEN <<x>>
  ELSE IF CompareLocations(x, Head(sorted)) < 0 THEN <<x>> \o sorted
  ELSE <<Head(sorted)>> \o InsertLocation(Tail(sorted), x)

RECURSIVE SortLocations(_, _)
SortLocations(locations, sorted) ==
  IF locations = <<>> THEN sorted
  ELSE SortLocations(Tail(locations), InsertLocation(sorted, Head(locations)))

\* new InlineDatasource(data, format, documentPath, startLine, endLine,
\* byteSize, locations)
InlineDatasource(data, format, documentPath, startLine, endLine, byteSize, locations) ==
  [type |-> "inline", data |-> data, format |-> format,
   documentPath |-> documentPath, startLine |-> startLine, endLine |-> endLine,
   byteSize |-> byteSize, locations |-> SortLocations(locations, <<>>)]

\* _buildLocation(loc): the lines of the definition and of its content
BuildLocation(ds, loc) ==
  [propertyPath |-> loc.propertyPath, absolutePath |-> ds.documentPath,
   startLine |-> loc.startLine, endLine |-> loc.endLine,
   contentStartLine |-> loc.startLine + 1, contentEndLine |-> loc.endLine - 1,
   format |-> loc.format]

\* what getMeta returns when no location has the property path
NoLocation == [propertyPath |-> <<>>]

\* InlineDatasource.getMeta(propertyPath): the first location of the sorted
\* list with that property path
getMeta(ds, propertyPath) ==
  IF SelectSeq(ds.locations, LAMBDA l : l.propertyPath = propertyPath) = <<>>
  THEN NoLocation
  ELSE BuildLocation(ds, Head(SelectSeq(ds.locations,
                                        LAMBDA l : l.propertyPath = propertyPath)))

\* InlineDatasource.get(dotPath)
DatasourceGet(ds, dotPath) == resolveDotPath(ds.data, dotPath)

\* InlineDatasource.getAll(): an array as it is, anything else wrapped
DatasourceGetAll(ds) ==
  IF ds.data.t = "arr" THEN ds.data ELSE Arr([k \in {"0"} |-> ds.data])

RECURSIVE mutFirstInvalidSizeOnly(_, _, _)
mutFirstInvalidSizeOnly(parsedData, n, cfg) ==
  IF n > Len(parsedData) THEN 0
  ELSE IF parsedData[n].byteSize > cfg.maxBytes THEN n
  ELSE mutFirstInvalidSizeOnly(parsedData, n + 1, cfg)

\* the first declaration that fails validation (0: none): its size exceeds
\* maxBytes or its format is not allowed
RECURSIVE FirstInvalid(_, _, _)
FirstInvalid(parsedData, n, cfg) ==
  IF n > Len(parsedData) THEN 0
  ELSE IF parsedData[n].byteSize > cfg.maxBytes
          \/ parsedData[n].format \notin cfg.allowedFormats
  THEN n
  ELSE FirstInvalid(parsedData, n + 1, cfg)

\* the keys of byRoot in insertion order
RECURSIVE RootNames(_, _)
RootNames(parsedData, seen) ==
  IF parsedData = <<>> THEN seen
  ELSE LET r == getRootName(Head(parsedData).name)
       IN RootNames(Tail(parsedData),
                    IF \E n \in 1..Len(seen) : seen[n] = r THEN seen ELSE Append(seen, r))

\* one dot-path definition applied to the root's data so far: setDotPath of
\* the decoded value, the location appended, the line range widened
ApplySet(item, subPath, value, set, acc) ==
  IF value.t = "error" \/ set.t = "error"
  THEN [acc EXCEPT !.ok = FALSE]
  ELSE [ok |-> TRUE,
        data |-> set,
        format |-> acc.format,
        locations |-> Append(acc.locations,
           [propertyPath |-> subPath, startLine |-> item.startLine,
            endLine |-> item.endLine, format |-> item.format]),
        startLine |-> IF acc.startLine = 0 \/ item.startLine < acc.startLine
                      THEN item.startLine ELSE acc.startLine,
        endLine |-> IF item.endLine > acc.endLine
                    THEN item.endLine ELSE acc.endLine,
        byteSize |-> acc.byteSize + item.byteSize]

ApplyValue(item, subPath, value, acc) ==
  ApplySet(item, subPath, value,
           setDotPath(IF acc.data.t \in {"obj", "arr"} THEN acc.data ELSE Obj(<<>>),
                      subPath, value),
           acc)

ApplyItem(item, cfg, acc) ==
  ApplyValue(item, Tail(item.name),
             parseInlineContent(item.content, item.format, cfg.stripCodeFences), acc)

RECURSIVE mutApplyItemsRootInOrder(_, _, _, _)
mutApplyItemsRootInOrder(items, rootName, cfg, acc) ==
  IF items = <<>> \/ ~acc.ok THEN acc
  ELSE IF Head(items).name = <<rootName>>
  THEN mutApplyItemsRootInOrder(Tail(items), rootName, cfg,
         [acc EXCEPT !.data = parseInlineContent(Head(items).content, Head(items).format,
                                                 cfg.stripCodeFences)])
  ELSE mutApplyItemsRootInOrder(Tail(items), rootName, cfg,
                                ApplyItem(Head(items), cfg, acc))

\* "Apply dot-path definitions in document order": the items of the root other
\* than its root definition, until one throws
RECURSIVE ApplyItems(_, _, _, _)
ApplyItems(items, rootName, cfg, acc) ==
  IF items = <<>> \/ ~acc.ok THEN acc
  ELSE IF Head(items).name = <<rootName>>
  THEN ApplyItems(Tail(items), rootName, cfg, acc)
  ELSE ApplyItems(Tail(items), rootName, cfg, ApplyItem(Head(items), cfg, acc))

\* the root definition decoded (items.find(item => item.name === rootName))
SeedFrom(rootItem, baseData) ==
  [ok |-> baseData.t # "error", data |-> baseData,
   format |-> rootItem.format,
   locations |-> <<[propertyPath |-> RootPath,
                    startLine |-> rootItem.startLine,
                    endLine |-> rootItem.endLine,
                    format |-> rootItem.format]>>,
   startLine |-> rootItem.startLine, endLine |-> rootItem.endLine,
   byteSize |-> rootItem.byteSize]

RootSeed(rootItems, cfg) ==
  IF rootItems # <<>>
  THEN SeedFrom(Head(rootItems),
                parseInlineContent(Head(rootItems).content, Head(rootItems).format,
                                   cfg.stripCodeFences))
  ELSE [ok |-> TRUE, data |-> Obj(<<>>), format |-> "yaml", locations |-> <<>>,
        startLine |-> 0, endLine |-> 0, byteSize |-> 0]

\* datasources.set(rootName, new InlineDatasource(...))
RootEntry(rootName, documentPath, acc) ==
  [ok |-> acc.ok, name |-> rootName,
   ds |-> InlineDatasource(acc.data, acc.format, documentPath, acc.startLine,
                           acc.endLine, acc.byteSize, acc.locations)]

BuildItems(rootName, items, documentPath, cfg) ==
  RootEntry(rootName, documentPath,
            ApplyItems(items, rootName, cfg,
                       RootSeed(SelectSeq(items, LAMBDA d : d.name = <<rootName>>), cfg)))

\* the body of "Process each root" for one root: the datasource, or ok = FALSE
\* when decoding or setDotPath throws
BuildRoot(rootName, parsedData, documentPath, cfg) ==
  BuildItems(rootName, SelectSeq(parsedData, LAMBDA d : getRootName(d.name) = rootName),
             documentPath, cfg)

RECURSIVE BuildRoots(_, _, _, _)
BuildRoots(roots, parsedData, documentPath, cfg) ==
  IF roots = <<>> THEN <<>>
  ELSE <<BuildRoot(Head(roots), parsedData, documentPath, cfg)>>
       \o BuildRoots(Tail(roots), parsedData, documentPath, cfg)

\* the Map once every root is processed, unless one of them threw
BuiltMap(built) ==
  IF \E n \in 1..Len(built) : ~built[n].ok
  THEN [ok |-> FALSE, error |-> "decode", entries |-> <<>>]
  ELSE [ok |-> TRUE, error |-> "", entries |-> built]

\* buildInlineDatasources(parsedData, documentPath, config): the Map as the
\* list of its entries in insertion order, or ok = FALSE when it throws (then
\* nothing is returned)
buildInlineDatasources(parsedData, documentPath, cfg) ==
  IF FirstInvalid(parsedData, 1, cfg) # 0
  THEN [ok |-> FALSE, error |-> "validation", entries |-> <<>>]
  ELSE BuiltMap(BuildRoots(RootNames(parsedData, <<>>), parsedData, documentPath, cfg))

\* ------------------------------------------------------------ processFile

\* what a render capability returns: a string, null, undefined, or it throws
Str(x) == [kind |-> "string", content |-> x]

RenderNull == [kind |-> "null", content |-> <<>>]

RenderUndefined == [kind |-> "undefined", content |-> <<>>]

RenderThrows == [kind |-> "throw", content |-> <<>>]

\* string concatenation with embedResult.content: null and undefined are
\* converted to the words null and undefined
ContentText(r) ==
  IF r.kind = "string" THEN r.content
  ELSE IF r.kind = "null" THEN <<"null">> ELSE <<"undefined">>

\* [...markers].sort((a, b) => b.startIndex - a.startIndex)
RECURSIVE InsertMarker(_, _)
InsertMarker(sorted, x) ==
  IF sorted = <<>> THEN <<x>>
  ELSE IF Head(sorted).startIndex - x.startIndex < 0 THEN <<x>> \o sorted
  ELSE <<Head(sorted)>> \o InsertMarker(Tail(sorted), x)

RECURSIVE SortMarkers(_, _)
SortMarkers(markers, sorted) ==
  IF markers = <<>> THEN sorted
  ELSE SortMarkers(Tail(markers), InsertMarker(sorted, Head(markers)))

mutIsInlineTruthy(marker) == "inline" \in DOMAIN marker.params

\* const isInline = marker.params['inline'] === 'true'
IsInline(marker) ==
  "inline" \in DOMAIN marker.params /\ marker.params["inline"] = "true"

\* const newContent = isInline ? start + content + end
\*                             : start + '\n' + content + '\n' + end
NewContent(marker, embedResult) ==
  IF IsInline(marker)
  THEN marker.startMarkerLine \o ContentText(embedResult) \o marker.endMarkerLine
  ELSE marker.startMarkerLine \o <<"N">> \o ContentText(embedResult) \o <<"N">>
       \o marker.endMarkerLine

\* processedContent.slice(0, startIndex) + newContent + processedContent.slice(endIndex)
Splice(processedContent, marker, newContent) ==
  Slice(processedContent, 0, marker.startIndex) \o newContent
  \o SliceFrom(processedContent, marker.endIndex)

\* finalContent.replace(/\n/g, '\r\n') under line_ending crlf
RECURSIVE ToCrlf(_)
ToCrlf(s) ==
  IF s = <<>> THEN <<>>
  ELSE (IF Head(s) = "N" THEN <<"R", "N">> ELSE <<Head(s)>>) \o ToCrlf(Tail(s))

OutputContent(finalContent, lineEnding) ==
  IF lineEnding = "crlf" THEN ToCrlf(finalContent) ELSE finalContent

\* the lexemes of an attribute value: "${", "}", ".", the parts of a path
\* (\w+ with its indices: rows[0]) and any other text; an attribute value of
\* the documents above is one lexeme of text, but for the value ${p.v}
PathParts == {"k", "o", "v", "t", "rows", "rows[0]", "name", "0", "nope", "p"}

\* the lexemes of the values of a parameter map
ValueLexemes(params) ==
  [key \in DOMAIN params |->
     IF params[key] = "${p.v}" THEN <<"${", "p", ".", "v", "}">> ELSE <<params[key]>>]

\* (\w+(?:\.\w+|\[\d+\])*)\} from lexeme j on, the first part being matched:
\* the index of the closing brace, or 0
RECURSIVE MatchRest(_, _)
MatchRest(value, j) ==
  IF j > Len(value) THEN 0
  ELSE IF value[j] = "}" THEN j
  ELSE IF value[j] = "." /\ j + 1 <= Len(value) /\ value[j + 1] \in PathParts
  THEN MatchRest(value, j + 2)
  ELSE 0

\* /\$\{(\w+(?:\.\w+|\[\d+\])*)\}/ at lexeme i: the index of the closing brace,
\* or 0 when there is no match at i
MatchPlaceholder(value, i) ==
  IF value[i] = "${" /\ i + 1 <= Len(value) /\ value[i + 1] \in PathParts
  THEN MatchRest(value, i + 2)
  ELSE 0

\* String(value) of a resolved value, '' for null and undefined
StringOf(node) ==
  CASE node.t = "str" -> node.v
    [] node.t = "obj" -> <<"[object Object]">>
    [] node.t = "arr" -> <<"[array]">>
    [] OTHER -> <<>>

\* the walk over frontmatter: a missing key or a primitive on the way gives ''
RECURSIVE FrontmatterWalk(_, _)
FrontmatterWalk(current, parts) ==
  IF parts = <<>> THEN StringOf(current)
  ELSE IF current.t \in {"obj", "arr"} /\ Head(parts) \in DOMAIN current.m
  THEN FrontmatterWalk(current.m[Head(parts)], Tail(parts))
  ELSE <<>>

\* the entry of the inline datasources Map for a name (or none)
InlineEntry(entries, name) == SelectSeq(entries, LAMBDA e : e.name = name)

\* the replacer of resolveVariablesWithInline on parts = path.split('.'):
\* the inline datasource named by the first part, else frontmatter
ResolvePath(parts, frontmatter, inlineEntries) ==
  IF InlineEntry(inlineEntries, Head(parts)) # <<>>
  THEN IF Tail(parts) # <<>>
       THEN StringOf(resolveDotPath(Head(InlineEntry(inlineEntries, Head(parts))).ds.data,
                                    Tail(parts)))
       ELSE StringOf(Head(InlineEntry(inlineEntries, Head(parts))).ds.data)
  ELSE FrontmatterWalk(Obj(frontmatter), parts)

\* path.split('.') of the lexemes between "${" and "}"
SplitPath(path) == SelectSeq(path, LAMBDA lexeme : lexeme # ".")

\* value.replace(pattern, replacer) from lexeme i on
RECURSIVE ReplaceFrom(_, _, _, _)
ReplaceFrom(value, i, frontmatter, inlineEntries) ==
  IF i > Len(value) THEN <<>>
  ELSE IF MatchPlaceholder(value, i) = 0
  THEN <<value[i]>> \o ReplaceFrom(value, i + 1, frontmatter, inlineEntries)
  ELSE ResolvePath(SplitPath(SubSeq(value, i + 1, MatchPlaceholder(value, i) - 1)),
                   frontmatter, inlineEntries)
       \o ReplaceFrom(value, MatchPlaceholder(value, i) + 1, frontmatter, inlineEntries)

\* the replacement of one attribute value by resolveVariablesWithInline
ResolveValue(value, frontmatter, inlineEntries) ==
  ReplaceFrom(value, 1, frontmatter, inlineEntries)

\* resolveVariablesWithInline(params, frontmatter, inlineDatasources)
resolveVariablesWithInline(params, frontmatter, inlineEntries) ==
  [key \in DOMAIN params |-> ResolveValue(params[key], frontmatter, inlineEntries)]

RECURSIVE mutMergeInlineWins(_, _, _)
mutMergeInlineWins(merged, entries, policy) ==
  IF entries = <<>> THEN [conflict |-> FALSE, map |-> merged]
  ELSE mutMergeInlineWins(Put(merged, Head(entries).name, Head(entries).ds),
                          Tail(entries), policy)

\* the loop merging the inline datasources into { ...datasources }: the merged
\* map, or conflict = TRUE when policy error meets a name of both
RECURSIVE MergeDatasources(_, _, _)
MergeDatasources(merged, entries, policy) ==
  IF entries = <<>> THEN [conflict |-> FALSE, map |-> merged]
  ELSE LET name == Head(entries).name
       IN IF name \in DOMAIN merged /\ policy = "error"
          THEN [conflict |-> TRUE, map |-> merged]
          ELSE IF name \in DOMAIN merged /\ policy = "prefer_external"
          THEN MergeDatasources(merged, Tail(entries), policy)
          ELSE MergeDatasources(Put(merged, name, Head(entries).ds), Tail(entries), policy)

\* marker.startLine += frontmatterLineOffset; marker.endLine += ...
ShiftLines(inlineDataMarkers, offset) ==
  [n \in 1..Len(inlineDataMarkers) |->
     [inlineDataMarkers[n] EXCEPT !.startLine = @ + offset, !.endLine = @ + offset]]

\* frontmatterRaw ? frontmatterRaw.split('\n').length - 1 : 0
FrontmatterLineOffset(raw) == Cardinality({n \in 1..Len(raw) : raw[n] = "N"})

\* ProcessResult
Result(filePath, success, markersUpdated, changed, error) ==
  [filePath |-> filePath, success |-> success, markersUpdated |-> markersUpdated,
   changed |-> changed, error |-> error]

mutFastPathNever(markers, inlineDataMarkers) == FALSE

\* if (markers.length === 0 && inlineDataMarkers.length === 0) return result
FastPath(markers, inlineDataMarkers) == markers = <<>> /\ inlineDataMarkers = <<>>

\* the locals of processFile when it reaches its loop (or its fast path)
ProcessLocals(filePath, content, fm, inlineDataMarkers, built, merged, markers) ==
  IF ~built.ok THEN [error |-> built.error]
  ELSE IF merged.conflict THEN [error |-> "conflict"]
  ELSE [error |-> "",
        fast |-> FastPath(markers, inlineDataMarkers),
        filePath |-> filePath,
        content |-> content,
        frontmatter |-> fm.data,
        frontmatterRaw |-> fm.raw,
        bodyContent |-> fm.content,
        inlineDataMarkers |-> inlineDataMarkers,
        inlineDatasources |-> built.entries,
        mergedDatasources |-> merged.map,
        markers |-> markers,
        sortedMarkers |-> SortMarkers(markers, <<>>),
        processedContent |-> fm.content,
        markersUpdated |-> 0]

\* "Merge datasources (external + inline)", then parseMarkers(bodyContent)
ProcessMerge(filePath, content, fm, style, inlineDataMarkers, built, externals, cfg) ==
  ProcessLocals(filePath, content, fm, inlineDataMarkers, built,
                MergeDatasources(externals, built.entries,
                                 cfg.inline_datasource.conflictPolicy),
                parseMarkers(fm.content, style))

\* "Build inline datasources"
ProcessInline(filePath, content, fm, style, inlineDataMarkers, externals, cfg) ==
  ProcessMerge(filePath, content, fm, style, inlineDataMarkers,
               buildInlineDatasources(inlineDataMarkers, filePath, cfg.inline_datasource),
               externals, cfg)

\* "Parse inline data markers", their lines shifted by the frontmatter's
ProcessBody(filePath, content, fm, style, externals, cfg) ==
  ProcessInline(filePath, content, fm, style,
                ShiftLines(parseInlineDataMarkers(fm.content, style),
                           FrontmatterLineOffset(fm.raw)),
                externals, cfg)

\* "Get comment style" (an unknown style throws), then "Parse frontmatter"
ProcessStyled(filePath, content, cs, externals, cfg) ==
  IF ~cs.ok THEN [error |-> "style"]
  ELSE ProcessBody(filePath, content, parseFrontmatter(content), cs.style, externals, cfg)

\* processFile from its entry to the first await: the thrown error (''), the
\* locals, and whether the fast path returned
ProcessEntry(filePath, content, targetConfig, externals, cfg) ==
  ProcessStyled(filePath, content, getCommentStyle(targetConfig.comment_style),
                externals, cfg)

\* ------------------------------------------------------- dependency graph

\* what reading a file that cannot be read gives
Unreadable == <<"ENOENT">>

\* a path is the sequence of its segments, "/" first when it is absolute;
\* resolve(path) makes it absolute against the working directory
Cwd == <<"/", "w">>

resolve(path) == IF path # <<>> /\ Head(path) = "/" THEN path ELSE Cwd \o path

\* the path glob gives for a file of the working directory
PathOf(f) == <<f>>

\* resolve(config.embeds_dir ?? './embeds')
EmbedsDir == resolve(<<"embeds">>)

\* changedPath.endsWith('.ts'), on the last segment
EndsWithTs(path) == path # <<>> /\ path[Len(path)] \in {"a.ts", "B.ts", "index.ts", "f3.ts"}

\* changedPath.split('/').pop()?.replace('.ts', '')
FileName(path) ==
  CASE path[Len(path)] = "a.ts" -> "a"
    [] path[Len(path)] = "B.ts" -> "B"
    [] path[Len(path)] = "index.ts" -> "index"
    [] path[Len(path)] = "f3.ts" -> "f3"
    [] OTHER -> path[Len(path)]

mutSnakeCaseKeepsName(fileName) == fileName

\* fileName.replace(/([A-Z])/g, '_$1').toLowerCase().replace(/^_/, '')
SnakeCase(fileName) == IF fileName = "B" THEN "b" ELSE fileName

\* the virtual path `embed:${name}`
EmbedPath(name) ==
  <<CASE name = "a" -> "embed:a"
      [] name = "b" -> "embed:b"
      [] name = "B" -> "embed:B"
      [] name = "index" -> "embed:index"
      [] OTHER -> "embed:f3">>

\* a Set in insertion order
SetAdd(set, x) ==
  IF \E n \in 1..Len(set) : set[n] = x THEN set ELSE Append(set, x)

\* getOrCreateNode(type, path): the Map with the node of resolve(path) in it
getOrCreateNode(nodes, type, path) ==
  IF resolve(path) \in DOMAIN nodes THEN nodes
  ELSE Put(nodes, resolve(path), [type |-> type, path |-> resolve(path),
                                  dependsOn |-> <<>>, dependedBy |-> <<>>])

mutDependOneWay(nodes, from, to) ==
  [nodes EXCEPT ![from].dependsOn = SetAdd(@, nodes[to].path)]

\* from.dependsOn.add(to.path); to.dependedBy.add(from.path), on the nodes of
\* two keys
Depend(nodes, from, to) ==
  [[nodes EXCEPT ![from].dependsOn = SetAdd(@, nodes[to].path)]
     EXCEPT ![to].dependedBy = SetAdd(@, nodes[from].path)]

\* config.datasources?.[dsName]?.path: the configured path, or <<>>
DatasourcePath(cfg, dsName) ==
  IF /\ "datasources" \in DOMAIN cfg
     /\ dsName \in DOMAIN cfg.datasources
     /\ "path" \in DOMAIN cfg.datasources[dsName]
  THEN cfg.datasources[dsName].path
  ELSE <<>>

\* for (const dsName of embed.dependsOn): "Embed -> Datasource dependency"
RECURSIVE AddDatasources(_, _, _, _)
AddDatasources(nodes, embedKey, dsNames, cfg) ==
  IF dsNames = <<>> THEN nodes
  ELSE IF DatasourcePath(cfg, Head(dsNames)) = <<>>
  THEN AddDatasources(nodes, embedKey, Tail(dsNames), cfg)
  ELSE AddDatasources(
         Depend(getOrCreateNode(nodes, "datasource", DatasourcePath(cfg, Head(dsNames))),
                embedKey, resolve(DatasourcePath(cfg, Head(dsNames)))),
         embedKey, Tail(dsNames), cfg)

\* for (const embedName of embedNames): "Document -> Embed dependency", then
\* the embed's datasources; a name that is not registered is passed over
RECURSIVE AddEmbeds(_, _, _, _, _)
AddEmbeds(nodes, docKey, embedNames, registry, cfg) ==
  IF embedNames = <<>> THEN nodes
  ELSE IF Head(embedNames) \notin DOMAIN registry
  THEN AddEmbeds(nodes, docKey, Tail(embedNames), registry, cfg)
  ELSE AddEmbeds(
         AddDatasources(
           Depend(getOrCreateNode(nodes, "embed", EmbedPath(Head(embedNames))),
                  docKey, resolve(EmbedPath(Head(embedNames)))),
           resolve(EmbedPath(Head(embedNames))),
           registry[Head(embedNames)].dependsOn, cfg),
         docKey, Tail(embedNames), registry, cfg)

\* new Set(markers.map((m) => m.templateName))
RECURSIVE EmbedNames(_, _)
EmbedNames(markers, seen) ==
  IF markers = <<>> THEN seen
  ELSE EmbedNames(Tail(markers), SetAdd(seen, Head(markers).templateName))

\* the try block of analyzeDocument on the Map that holds the document's node
AnalyzeContent(nodes, docKey, content, cs, registry, cfg) ==
  IF content = Unreadable \/ ~cs.ok THEN nodes
  ELSE AddEmbeds(nodes, docKey,
                 EmbedNames(parseMarkers(parseFrontmatter(content).content, cs.style), <<>>),
                 registry, cfg)

\* analyzeDocument(filePath, targetConfig): the Map after it
analyzeDocument(nodes, filePath, targetConfig, content, registry, cfg) ==
  AnalyzeContent(getOrCreateNode(nodes, "document", filePath), resolve(filePath),
                 content, getCommentStyle(targetConfig.comment_style), registry, cfg)

mutStartNodeSkipsLookup(nodes, changedPath) ==
  IF \E k \in DOMAIN nodes :
       nodes[k].type = "datasource" /\ nodes[k].path = resolve(changedPath)
  THEN CHOOSE k \in DOMAIN nodes :
         nodes[k].type = "datasource" /\ nodes[k].path = resolve(changedPath)
  ELSE IF EndsWithTs(changedPath) /\ FileName(changedPath) # "index"
  THEN IF resolve(EmbedPath(FileName(changedPath))) \in DOMAIN nodes
       THEN resolve(EmbedPath(FileName(changedPath)))
       ELSE <<>>
  ELSE <<>>

\* the start node of getAffectedDocuments as its key (<<>>: none): the node of
\* the path, else a datasource node of that path, else for a .ts file the
\* embed named like the file or like its snake_case form
StartNode(nodes, changedPath) ==
  IF resolve(changedPath) \in DOMAIN nodes THEN resolve(changedPath)
  ELSE IF \E k \in DOMAIN nodes :
            nodes[k].type = "datasource" /\ nodes[k].path = resolve(changedPath)
  THEN CHOOSE k \in DOMAIN nodes :
         nodes[k].type = "datasource" /\ nodes[k].path = resolve(changedPath)
  ELSE IF EndsWithTs(changedPath) /\ FileName(changedPath) # "index"
  THEN IF resolve(EmbedPath(FileName(changedPath))) \in DOMAIN nodes
       THEN resolve(EmbedPath(FileName(changedPath)))
       ELSE IF resolve(EmbedPath(SnakeCase(FileName(changedPath)))) \in DOMAIN nodes
       THEN resolve(EmbedPath(SnakeCase(FileName(changedPath))))
       ELSE <<>>
  ELSE <<>>

mutDependentsFirstOnly(nodes, dependedBy, visited) ==
  IF dependedBy = <<>> THEN <<>>
  ELSE IF Head(dependedBy) \in DOMAIN nodes /\ Head(dependedBy) \notin visited
  THEN <<Head(dependedBy)>> ELSE <<>>

\* the nodes of the keys of dependedBy that are in the Map and not visited
RECURSIVE Dependents(_, _, _)
Dependents(nodes, dependedBy, visited) ==
  IF dependedBy = <<>> THEN <<>>
  ELSE (IF Head(dependedBy) \in DOMAIN nodes /\ Head(dependedBy) \notin visited
        THEN <<Head(dependedBy)>> ELSE <<>>)
       \o Dependents(nodes, Tail(dependedBy), visited)

\* "BFS to find dependent documents": the affected paths in the order found
RECURSIVE Bfs(_, _, _, _)
Bfs(nodes, queue, visited, affected) ==
  IF queue = <<>> THEN affected
  ELSE IF Head(queue) \in visited THEN Bfs(nodes, Tail(queue), visited, affected)
  ELSE Bfs(nodes,
           Tail(queue) \o Dependents(nodes, nodes[Head(queue)].dependedBy,
                                     visited \cup {Head(queue)}),
           visited \cup {Head(queue)},
           IF nodes[Head(queue)].type = "document"
           THEN SetAdd(affected, nodes[Head(queue)].path) ELSE affected)

\* the paths getAffectedDocuments is asked about: the datasource files (the
\* second one absolute), a document, the source files of embeds in the embeds
\* directory, a file of that name elsewhere, a text file, and a file named
\* like the virtual path of an embed
ChangedPaths ==
  {<<"data", "db.csv">>, <<"/", "w", "data", "other.csv">>, <<"f1.md">>,
   <<"embeds", "a.ts">>, <<"embeds", "B.ts">>, <<"embeds", "index.ts">>,
   <<"lib", "a.ts">>, <<"notes.txt">>, <<"embed:a">>}

\* getAffectedDocuments(changedPath)
getAffectedDocuments(nodes, changedPath) ==
  IF StartNode(nodes, changedPath) = <<>> THEN <<>>
  ELSE Bfs(nodes, <<StartNode(nodes, changedPath)>>, {}, <<>>)

\* -------------------------------------------------------------- the state

VARIABLES
  config,       \* EmbedifyConfig: targets, output.line_ending, inline_datasource
  embeds,       \* the registry: name -> [render, dependsOn]
  datasources,  \* the external datasources given to build: name -> handle
  dryRun,       \* options.dryRun
  disk,         \* the file system: path -> content, or Unreadable
  unwritable,   \* the paths writeFile fails on
  pc,           \* where build stands
  targetIdx,    \* the index of the target of the outer loop
  files,        \* the files of the current target not yet processed
  work,         \* the locals of the running processFile
  results,      \* build's results
  renderLog,    \* every call of a render capability, in order
  writeLog,     \* every writeFile call that succeeded, in order
  builds,       \* the builds completed
  runs,         \* the builds the driver runs in succession
  disk0,        \* the file system when the first build started
  depGraph,     \* the DependencyGraph: its Map of nodes and where build() stands
  query,        \* the last call of getAffectedDocuments and what it returned
  watch,        \* the closure of the watch command: pending map, timers, batches
  watchLog,     \* the events handled and the batches started, in order
  earlier,      \* what the build before this one returned, logged and wrote
  resolution,   \* a call of resolveVariablesWithInline: its arguments and result
  specificFiles \* options.specificFiles (<<>>: not given)

vars == <<config, embeds, datasources, dryRun, disk, unwritable, pc, targetIdx,
          files, work, results, renderLog, writeLog, builds, runs, disk0,
          depGraph, query, watch, watchLog, earlier, resolution, specificFiles>>

static == <<config, embeds, datasources, dryRun, unwritable, runs, disk0,
            depGraph, query, watch, watchLog, earlier, resolution, specificFiles>>

NoWork == [error |-> "none"]

\* the files of the working directory, in directory order
Paths == <<"f1.md", "f2.md", "f3.ts">>

Ext(path) == IF path = "f3.ts" THEN "ts" ELSE "md"

\* the patterns of the targets: "md" is **/*.md, "ts" is **/*.ts and
\* "f1*.md" itself; what glob matches with each
Matches(path, pattern) ==
  IF pattern = "f1*.md" THEN path = "f1.md" ELSE Ext(path) = pattern

\* f.endsWith(targetConfig.pattern.split('*').pop() ?? '')
EndsWithSuffix(path, pattern) ==
  Ext(path) = (IF pattern = "f1*.md" THEN "md" ELSE pattern)

\* glob(pattern): the files the pattern matches
getTargetFiles(targetConfig) ==
  SelectSeq(Paths, LAMBDA f : f \in DOMAIN disk /\ Matches(f, targetConfig.pattern))

\* the files of a target: options.specificFiles filtered by the suffix of the
\* pattern when given and not empty, else the files the pattern matches
TargetFiles(targetConfig) ==
  IF specificFiles # <<>>
  THEN SelectSeq(specificFiles, LAMBDA f : EndsWithSuffix(f, targetConfig.pattern))
  ELSE getTargetFiles(targetConfig)

\* ------------------------------------------------------------- the actions

\* build is called: the outer loop starts at the first target
BuildStart ==
  /\ pc = "idle"
  /\ builds < runs
  /\ pc' = "target"
  /\ targetIdx' = 1
  /\ results' = <<>>
  /\ renderLog' = <<>>
  /\ writeLog' = <<>>
  /\ UNCHANGED <<static, disk, files, work, builds>>

\* for (const targetConfig of config.targets): files = await getTargetFiles;
\* after the last target build returns its BuildResult
NextTarget ==
  /\ pc = "target"
  /\ IF targetIdx > Len(config.targets)
     THEN /\ pc' = "idle"
          /\ builds' = builds + 1
          /\ UNCHANGED <<files, targetIdx>>
     ELSE /\ pc' = "file"
          /\ files' = TargetFiles(config.targets[targetIdx])
          /\ UNCHANGED <<builds, targetIdx>>
  /\ UNCHANGED <<static, disk, work, results, renderLog, writeLog>>

\* what build does with processFile's entry for a file: a thrown error and the
\* fast path give the file's result, otherwise the loop over the markers starts
EnterFile(filePath, entry) ==
  IF entry.error # ""
  THEN /\ results' = Append(results, Result(filePath, FALSE, 0, FALSE, entry.error))
       /\ UNCHANGED <<pc, work>>
  ELSE IF entry.fast
  THEN /\ results' = Append(results, Result(filePath, TRUE, 0, FALSE, ""))
       /\ UNCHANGED <<pc, work>>
  ELSE /\ pc' = "markers"
       /\ work' = entry
       /\ UNCHANGED results

mutTakeFileStopsAtReadError(filePath) ==
  /\ UNCHANGED targetIdx
  /\ IF disk[filePath] = Unreadable
     THEN /\ results' = Append(results, Result(filePath, FALSE, 0, FALSE, "read"))
          /\ files' = <<>>
          /\ UNCHANGED <<pc, work>>
     ELSE /\ files' = Tail(files)
          /\ EnterFile(filePath,
                       ProcessEntry(filePath, disk[filePath], config.targets[targetIdx],
                                    datasources, config))

\* the body of for (const filePath of files) up to processFile's first await
TakeFile(filePath) ==
  /\ files' = Tail(files)
  /\ UNCHANGED targetIdx
  /\ IF disk[filePath] = Unreadable
     THEN /\ results' = Append(results, Result(filePath, FALSE, 0, FALSE, "read"))
          /\ UNCHANGED <<pc, work>>
     ELSE EnterFile(filePath,
                    ProcessEntry(filePath, disk[filePath], config.targets[targetIdx],
                                 datasources, config))

\* for (const filePath of files): content = await readFile; processFile runs
\* to its first await, or returns, or throws
ReadFile ==
  /\ pc = "file"
  /\ IF files = <<>>
     THEN /\ pc' = "target"
          /\ targetIdx' = targetIdx + 1
          /\ UNCHANGED <<files, work, results>>
     ELSE TakeFile(Head(files))
  /\ UNCHANGED <<static, disk, renderLog, writeLog, builds>>

\* one turn of for (const marker of sortedMarkers): an unknown embed is
\* skipped; otherwise the capability is awaited and its content spliced in,
\* or its exception ends processFile in the catch block
RenderMarker ==
  /\ pc = "markers"
  /\ work.sortedMarkers # <<>>
  /\ LET marker == Head(work.sortedMarkers)
         known == marker.templateName \in DOMAIN embeds
         embedResult == embeds[marker.templateName].render
         ctx == [filePath |-> work.filePath,
                 templateName |-> marker.templateName,
                 params |-> resolveVariablesWithInline(ValueLexemes(marker.params),
                                                       work.frontmatter,
                                                       work.inlineDatasources),
                 datasources |-> work.mergedDatasources]
     IN IF ~known
        THEN /\ work' = [work EXCEPT !.sortedMarkers = Tail(@)]
             /\ UNCHANGED <<pc, results, renderLog>>
        ELSE /\ renderLog' = Append(renderLog, ctx)
             /\ IF embedResult.kind = "throw"
                THEN /\ results' = Append(results,
                            Result(work.filePath, FALSE, work.markersUpdated, FALSE, "render"))
                     /\ pc' = "file"
                     /\ work' = NoWork
                ELSE /\ work' = [work EXCEPT
                            !.sortedMarkers = Tail(@),
                            !.processedContent =
                               Splice(@, marker, NewContent(marker, embedResult)),
                            !.markersUpdated = @ + 1]
                     /\ UNCHANGED <<pc, results>>
  /\ UNCHANGED <<static, disk, targetIdx, files, writeLog, builds>>

mutFinishFileWritesInDryRun ==
  /\ pc = "markers"
  /\ work.sortedMarkers = <<>>
  /\ LET finalContent == work.frontmatterRaw \o work.processedContent
         changed == finalContent # work.content
         outputContent == OutputContent(finalContent, config.output.line_ending)
         fails == changed /\ work.filePath \in unwritable
     IN /\ results' = Append(results,
              Result(work.filePath, ~fails, work.markersUpdated, changed,
                     IF fails THEN "write" ELSE ""))
        /\ IF changed /\ ~fails
           THEN /\ disk' = [disk EXCEPT ![work.filePath] = outputContent]
                /\ writeLog' = Append(writeLog,
                      [filePath |-> work.filePath, content |-> outputContent])
           ELSE UNCHANGED <<disk, writeLog>>
  /\ pc' = "file"
  /\ work' = NoWork
  /\ UNCHANGED <<static, targetIdx, files, renderLog, builds>>

\* after the loop: the frontmatter is prepended, the text compared with the
\* input and, when it differs and this is no dry run, written
FinishFile ==
  /\ pc = "markers"
  /\ work.sortedMarkers = <<>>
  /\ LET finalContent == work.frontmatterRaw \o work.processedContent
         changed == finalContent # work.content
         outputContent == OutputContent(finalContent, config.output.line_ending)
         writes == changed /\ ~dryRun
         fails == writes /\ work.filePath \in unwritable
     IN /\ results' = Append(results,
              Result(work.filePath, ~fails, work.markersUpdated, changed,
                     IF fails THEN "write" ELSE ""))
        /\ IF writes /\ ~fails
           THEN /\ disk' = [disk EXCEPT ![work.filePath] = outputContent]
                /\ writeLog' = Append(writeLog,
                      [filePath |-> work.filePath, content |-> outputContent])
           ELSE UNCHANGED <<disk, writeLog>>
  /\ pc' = "file"
  /\ work' = NoWork
  /\ UNCHANGED <<static, targetIdx, files, renderLog, builds>>

Next == BuildStart \/ NextTarget \/ ReadFile \/ RenderMarker \/ FinishFile

\* build is called again on the files a dry run left, now with dryRun false;
\* what the dry run returned is kept
RunAgain ==
  /\ pc = "idle"
  /\ builds = 1
  /\ dryRun
  /\ dryRun' = FALSE
  /\ earlier' = [results |-> results, renderLog |-> renderLog,
                 writeLog |-> writeLog, disk |-> disk]
  /\ pc' = "target"
  /\ targetIdx' = 1
  /\ results' = <<>>
  /\ renderLog' = <<>>
  /\ writeLog' = <<>>
  /\ UNCHANGED <<config, embeds, datasources, unwritable, runs, disk0, depGraph,
                 query, watch, watchLog, resolution, specificFiles, disk, files, work,
                 builds>>

NextDry == Next \/ RunAgain

\* ------------------------------------------- the dependency graph's actions

\* what the build and the files leave alone while the graph is at work
fixed == <<config, embeds, datasources, dryRun, disk, unwritable, pc, targetIdx,
           files, work, results, renderLog, writeLog, builds, runs, disk0,
           watch, watchLog, earlier, resolution, specificFiles>>

\* new DependencyGraph(config, embeds)
NewGraph == [pc |-> "new", nodes |-> <<>>, target |-> 1, files |-> <<>>]

NoQuery == [changedPath |-> <<>>, affected |-> <<>>, built |-> FALSE]

\* build() is called: this.nodes.clear()
GraphBuild ==
  /\ depGraph.pc = "new"
  /\ depGraph' = [depGraph EXCEPT !.pc = "glob", !.nodes = <<>>, !.target = 1]
  /\ UNCHANGED <<fixed, query>>

\* for (const targetConfig of this.config.targets): files = await glob(...);
\* after the last target build() returns
GraphGlob ==
  /\ depGraph.pc = "glob"
  /\ IF depGraph.target > Len(config.targets)
     THEN depGraph' = [depGraph EXCEPT !.pc = "built"]
     ELSE depGraph' = [depGraph EXCEPT !.pc = "analyze",
                         !.files = getTargetFiles(config.targets[depGraph.target])]
  /\ UNCHANGED <<fixed, query>>

\* for (const filePath of files): await this.analyzeDocument(filePath, targetConfig)
AnalyzeDocument ==
  /\ depGraph.pc = "analyze"
  /\ IF depGraph.files = <<>>
     THEN depGraph' = [depGraph EXCEPT !.pc = "glob", !.target = @ + 1]
     ELSE depGraph' = [depGraph EXCEPT
            !.files = Tail(@),
            !.nodes = analyzeDocument(@, PathOf(Head(depGraph.files)),
                                      config.targets[depGraph.target],
                                      disk[Head(depGraph.files)], embeds, config)]
  /\ UNCHANGED <<fixed, query>>

\* getAffectedDocuments(changedPath) is called, on a graph not yet built or
\* after build()
GetAffected ==
  /\ depGraph.pc \in {"new", "built"}
  /\ \E changedPath \in ChangedPaths :
       query' = [changedPath |-> changedPath,
                 affected |-> getAffectedDocuments(depGraph.nodes, changedPath),
                 built |-> depGraph.pc = "built"]
  /\ UNCHANGED <<fixed, depGraph>>

NextGraph == GraphBuild \/ GraphGlob \/ AnalyzeDocument \/ GetAffected

\* ------------------------------------------------ the variable resolver

NoResolution == [called |-> FALSE]

\* resolveVariablesWithInline(params, frontmatter, inlineDatasources) is
\* called and returns
ResolveVariables ==
  /\ ~resolution.called
  /\ "params" \in DOMAIN resolution
  /\ resolution' = [resolution EXCEPT
        !.called = TRUE,
        !.result = resolveVariablesWithInline(resolution.params, resolution.frontmatter,
                                              resolution.inlineDatasources)]
  /\ UNCHANGED <<config, embeds, datasources, dryRun, disk, unwritable, pc, targetIdx,
                 files, work, results, renderLog, writeLog, builds, runs, disk0,
                 depGraph, query, watch, watchLog, earlier, specificFiles>>

NextResolve == ResolveVariables

\* ------------------------------------------------- the watch command

\* what the watch command leaves alone in this model: the build of a batch is
\* one span of the batch, its files and its graph are not followed
unwatched == <<config, embeds, datasources, dryRun, disk, unwritable, pc, targetIdx,
               files, work, results, renderLog, writeLog, builds, runs, disk0,
               depGraph, query, earlier, resolution, specificFiles>>

\* the closure after `watcher` is created: datasources holds the handles made
\* by the first initializeDatasources (generation 1), depGraph the graph whose
\* build() was awaited (graph 0), no timer, nothing pending
NewWatch ==
  [pendingChanges |-> <<>>, debounceTimer |-> 0, timers |-> {}, nextTimer |-> 1,
   batches |-> <<>>, datasources |-> 1, handles |-> 1, closed |-> {},
   depGraph |-> 0, building |-> {}]

\* the paths chokidar reports: a document (relative and absolute) and the
\* source file of an embed
WatchFiles == {<<"f1.md">>, <<"/", "w", "f1.md">>, <<"embeds", "a.ts">>}

\* filePath.startsWith(embedsDir)
StartsWith(path, prefix) ==
  Len(path) >= Len(prefix) /\ SubSeq(path, 1, Len(prefix)) = prefix

\* handleChange(type)(filePath): the entry of the map is set, the timer of
\* the last setTimeout cleared and a new one started
handleChange(w, type, filePath) ==
  [w EXCEPT !.pendingChanges = Put(@, resolve(filePath), type),
            !.timers = (@ \ {w.debounceTimer}) \cup {w.nextTimer},
            !.debounceTimer = w.nextTimer,
            !.nextTimer = @ + 1]

mutTakeChangesKeepsPending(w) ==
  [w EXCEPT !.batches = Append(@, [pc |-> "entered", changes |-> w.pendingChanges,
                                   handles |-> 0, graph |-> 0, partial |-> FALSE])]

\* const changes = new Map(pendingChanges); pendingChanges.clear()
TakeChanges(w) ==
  [w EXCEPT !.pendingChanges = <<>>,
            !.batches = Append(@, [pc |-> "entered", changes |-> w.pendingChanges,
                                   handles |-> 0, graph |-> 0, partial |-> FALSE])]

\* some changed path is a .ts file under the embeds directory
EmbedChanged(changes) ==
  \E filePath \in DOMAIN changes : StartsWith(filePath, EmbedsDir) /\ EndsWithTs(filePath)

\* await closeDatasources(datasources); datasources = initializeDatasources(config);
\* build(config, embeds, datasources, ...) is called: every close() runs in
\* the same turn of the event loop, so the three are one step
Rebuild(w, b) ==
  [w EXCEPT !.closed = @ \cup {w.datasources},
            !.datasources = w.handles + 1,
            !.handles = @ + 1,
            !.batches[b] = [@ EXCEPT !.pc = "build", !.handles = w.handles + 1]]

\* the graph a batch makes after reloading the embeds (at "depGraph") and
\* the one it makes after its build (at "updateGraph")
GraphOf(b, at) == IF at = "depGraph" THEN 2 * b - 1 ELSE 2 * b

\* depGraph = new DependencyGraph(config, embeds); depGraph.build() is called
\* and runs to its first await
StartGraph(w, b, at) ==
  [w EXCEPT !.depGraph = GraphOf(b, at),
            !.building = @ \cup {GraphOf(b, at)},
            !.batches[b] = [@ EXCEPT !.pc = at, !.graph = GraphOf(b, at)]]

\* the build() the batch awaits returns
EndGraph(w, b) ==
  [w EXCEPT !.building = @ \ {w.batches[b].graph}]

\* depGraph.getAffectedDocuments(filePath) for the changes of the batch, on
\* the graph the closure holds now
Query(w, b) ==
  [w EXCEPT !.batches[b].partial = w.depGraph \in w.building]

\* "Identify affected documents": with some the rebuild starts, with none
\* the target patterns are globbed
Identify(w, b, hit) ==
  IF hit THEN Rebuild(Query(w, b), b) ELSE [Query(w, b) EXCEPT !.batches[b].pc = "glob"]

\* processChanges up to its first await on I/O
processChanges(w, hit) ==
  IF EmbedChanged(w.pendingChanges)
  THEN [TakeChanges(w) EXCEPT !.batches[Len(w.batches) + 1].pc = "loadEmbeds"]
  ELSE Identify(TakeChanges(w), Len(w.batches) + 1, hit)

\* the events handled so far
Events == {n \in 1..Len(watchLog) : watchLog[n].kind = "event"}

\* watcher.on('change' | 'add'): chokidar reports a path
HandleChange ==
  /\ Cardinality(Events) < MaxEvents
  /\ \E type \in {"change", "add"}, filePath \in WatchFiles :
       /\ watch' = handleChange(watch, type, filePath)
       /\ watchLog' = Append(watchLog, [kind |-> "event", type |-> type,
                                        path |-> resolve(filePath)])
  /\ UNCHANGED unwatched

\* a timer started by setTimeout(processChanges, 200) fires
ProcessChanges ==
  /\ \E t \in watch.timers, hit \in BOOLEAN :
       watch' = processChanges([watch EXCEPT !.timers = @ \ {t}], hit)
  /\ watchLog' = Append(watchLog, [kind |-> "batch"])
  /\ UNCHANGED unwatched

\* embeds = await loadEmbeds(embedsDir) returns (once for the batch); the
\* graph is replaced and its build() called
EmbedsLoaded ==
  /\ \E b \in DOMAIN watch.batches :
       /\ watch.batches[b].pc = "loadEmbeds"
       /\ watch' = StartGraph(watch, b, "depGraph")
  /\ UNCHANGED <<unwatched, watchLog>>

\* if (embedsReloaded): await depGraph.build() returns, the affected
\* documents are identified
GraphRebuilt ==
  /\ \E b \in DOMAIN watch.batches, hit \in BOOLEAN :
       /\ watch.batches[b].pc = "depGraph"
       /\ watch' = Identify(EndGraph(watch, b), b, hit)
  /\ UNCHANGED <<unwatched, watchLog>>

\* the await glob(target.pattern) of the fallback return: a changed path that
\* matches a target is rebuilt, otherwise "No affected documents found"
GlobReturns ==
  /\ \E b \in DOMAIN watch.batches, hit \in BOOLEAN :
       /\ watch.batches[b].pc = "glob"
       /\ watch' = IF hit THEN Rebuild(watch, b)
                   ELSE [watch EXCEPT !.batches[b].pc = "returned"]
  /\ UNCHANGED <<unwatched, watchLog>>

\* await build(...) returns; depGraph = new DependencyGraph; depGraph.build()
\* is called
BuildReturns ==
  /\ \E b \in DOMAIN watch.batches :
       /\ watch.batches[b].pc = "build"
       /\ watch' = StartGraph(watch, b, "updateGraph")
  /\ UNCHANGED <<unwatched, watchLog>>

\* await depGraph.build() returns and processChanges with it
GraphUpdated ==
  /\ \E b \in DOMAIN watch.batches :
       /\ watch.batches[b].pc = "updateGraph"
       /\ watch' = [EndGraph(watch, b) EXCEPT !.batches[b].pc = "returned"]
  /\ UNCHANGED <<unwatched, watchLog>>

NextWatch ==
  \/ HandleChange \/ ProcessChanges \/ EmbedsLoaded \/ GraphRebuilt
  \/ GlobReturns \/ BuildReturns \/ GraphUpdated

\* ------------------------------------------------------ initial states

\* the pieces of a document under a delimited and under a line-terminated
\* style: prose, a line break, start markers of a (no attribute, inline="true")
\* and of b (inline="false"), an end marker, and a start marker of a that is
\* not closed (delimited) or an end marker at the end of a line (line)
SegKinds == {"T", "NL", "SA", "SAI", "SB", "EN", "U"}

SegText(kind, delimited) ==
  LET close == IF delimited THEN <<"C">> ELSE <<"N">>
  IN CASE kind = "T" -> <<"x">>
       [] kind = "NL" -> <<"N">>
       [] kind = "SA" -> <<"O", "@a">> \o close
       [] kind = "SAI" -> <<"O", "@a", "It">> \o close
       [] kind = "SB" -> <<"O", "@b", "If">> \o close
       [] kind = "EN" -> <<"O", "@end">> \o close
       [] kind = "U" -> <<"O", IF delimited THEN "@a" ELSE "@end">>
       [] kind = "FK" -> <<"D", "N", "k", "N", "D", "N">>
       [] kind = "FE" -> <<"D", "N", "D", "N">>
       [] kind = "DV1" -> <<"O", "$p.v", "Ft">> \o close \o <<"1", "O", "$end">> \o close
       [] kind = "DV2" -> <<"O", "$p.v", "Ft">> \o close \o <<"2", "O", "$end">> \o close
       [] kind = "DR" -> <<"O", "$p">> \o (IF delimited THEN <<"C">> ELSE <<"S", "N">>)
                         \o <<"v:0", "N", "w:9", "N", "O", "$end">> \o close
       [] kind = "DJ" -> <<"O", "$q", "Fj">> \o close \o <<"1", "O", "$end">> \o close
       [] kind = "M" -> <<"O", "@a", "If">> \o close \o <<"O", "@end">> \o close
       [] kind = "MP" -> <<"O", "@a", "Pv">> \o close \o <<"O", "@end">> \o close
       [] OTHER -> <<>>

RECURSIVE Flatten(_, _)
Flatten(segs, delimited) ==
  IF segs = <<>> THEN <<>>
  ELSE SegText(Head(segs), delimited) \o Flatten(Tail(segs), delimited)

\* the documents of at most n pieces of the given kinds
Documents(kinds, delimited, n) ==
  UNION {{Flatten(segs, delimited) : segs \in [1..k -> kinds]} : k \in 0..n}

\* the same behind a frontmatter block, with a key or without
WithFrontmatter(docs) ==
  {SegText(f, TRUE) \o d : f \in {"FK", "FE"}, d \in docs}

Embed(render) == [render |-> render, dependsOn |-> <<>>]

EmbedOn(render, dependsOn) == [render |-> render, dependsOn |-> dependsOn]

\* the registries: a alone; a returning '' and b undefined; a returning null
\* beside b; a returning two lines and b throwing
Registries ==
  {[n \in {"a"} |-> Embed(Str(<<"y">>))],
   [n \in {"a", "b"} |-> Embed(IF n = "a" THEN Str(<<>>) ELSE RenderUndefined)],
   [n \in {"a", "b"} |-> Embed(IF n = "a" THEN RenderNull ELSE Str(<<"y">>))],
   [n \in {"a", "b"} |-> Embed(IF n = "a" THEN Str(<<"y", "N", "y">>) ELSE RenderThrows)]}

InlineConfig(maxBytes, allowedFormats, conflictPolicy) ==
  [maxBytes |-> maxBytes, allowedFormats |-> allowedFormats,
   conflictPolicy |-> conflictPolicy, stripCodeFences |-> TRUE]

DefaultInlineConfig == InlineConfig(DefaultMaxBytes, DefaultAllowedFormats, "warn")

Config(styleName, lineEnding, inline) ==
  [targets |-> <<[pattern |-> "md", comment_style |-> styleName]>>,
   output |-> [line_ending |-> lineEnding],
   inline_datasource |-> inline]

External(name) == [type |-> "external", name |-> name]

\* a build not yet called, a graph not yet built, a watcher without events
InitIdle ==
  /\ pc = "idle"
  /\ targetIdx = 1
  /\ files = <<>>
  /\ work = NoWork
  /\ results = <<>>
  /\ renderLog = <<>>
  /\ writeLog = <<>>
  /\ builds = 0
  /\ disk0 = disk
  /\ depGraph = NewGraph
  /\ query = NoQuery
  /\ watch = NewWatch
  /\ watchLog = <<>>
  /\ earlier = <<>>

\* the variables that start the same in every specification
InitBuild ==
  /\ InitIdle
  /\ resolution = NoResolution
  /\ specificFiles = <<>>

\* one document of markers and prose, with and without frontmatter, every
\* style, one build
InitMarkers ==
  /\ \E styleName \in StyleNames :
       /\ config = Config(styleName, "lf", DefaultInlineConfig)
       /\ \E text \in Documents(SegKinds, DEFAULT_COMMENT_STYLES[styleName].delimited, MaxSegs)
                      \cup WithFrontmatter(Documents(SegKinds,
                              DEFAULT_COMMENT_STYLES[styleName].delimited, MaxSegs - 2)) :
            disk = [f \in {"f1.md"} |-> text]
  /\ embeds \in Registries
  /\ datasources = <<>>
  /\ dryRun = FALSE
  /\ unwritable = {}
  /\ runs = 1
  /\ InitBuild

SpecMarkers == InitMarkers /\ [][Next]_vars
\* the pieces of a document with inline data: declarations of p.v (text 1 and
\* text 2), of the root p (yaml), of q (json), and a marker of a
DataKinds == {"DV1", "DV2", "DR", "DJ", "M"}

\* the inline_datasource settings: each limit at its default and tightened,
\* every conflict policy
InlineConfigs ==
  {InlineConfig(maxBytes, allowedFormats, conflictPolicy) :
     maxBytes \in {DefaultMaxBytes, TightMaxBytes},
     allowedFormats \in {DefaultAllowedFormats, DefaultAllowedFormats \ {"json"}},
     conflictPolicy \in {"warn", "error", "prefer_external"}}

\* the datasources handed to build: none, or an external one named p
Externals == {<<>>, [n \in {"p"} |-> External(n)]}

\* one document with inline data, a delimited and a line style, one build
InitData ==
  /\ \E styleName \in {"html", "hash"} :
       \E inline \in InlineConfigs :
         /\ config = Config(styleName, "lf", inline)
         /\ \E text \in Documents(DataKinds, DEFAULT_COMMENT_STYLES[styleName].delimited,
                                  MaxDecls) :
              disk = [f \in {"f1.md"} |-> text]
  /\ embeds = [n \in {"a"} |-> Embed(Str(<<"y">>))]
  /\ datasources \in Externals
  /\ dryRun = FALSE
  /\ unwritable = {}
  /\ runs = 1
  /\ InitBuild

SpecData == InitData /\ [][Next]_vars

\* the documents of a batch: prose; a marker of a; a marker of b; both, in
\* either order; a json declaration and a marker; a declaration of the root p
\* and a marker
BatchDocs ==
  {Flatten(kinds, TRUE) :
     kinds \in {<<"T">>, <<"SA", "EN">>, <<"SB", "EN">>, <<"SA", "EN", "SB", "EN">>,
                <<"SB", "EN", "SA", "EN">>, <<"DJ", "M">>, <<"DR", "M">>}}

\* two targets: the .md files in html comments, the .ts files in block comments
BatchConfig ==
  [targets |-> <<[pattern |-> "md", comment_style |-> "html"],
                 [pattern |-> "ts", comment_style |-> "block"]>>,
   output |-> [line_ending |-> "lf"],
   inline_datasource |->
     InlineConfig(DefaultMaxBytes, DefaultAllowedFormats \ {"json"}, "error")]

\* three files, each a document of the batch or unreadable; b throws, json is
\* not allowed, and an external datasource p meets policy error
InitBatch ==
  /\ config = BatchConfig
  /\ disk \in [{Paths[n] : n \in 1..Len(Paths)} -> BatchDocs \cup {Unreadable}]
  /\ embeds = [n \in {"a", "b"} |->
                 Embed(IF n = "a" THEN Str(<<"y">>) ELSE RenderThrows)]
  /\ datasources = [n \in {"p"} |-> External(n)]
  /\ dryRun = FALSE
  /\ unwritable = {}
  /\ runs = 1
  /\ InitBuild

SpecBatch == InitBatch /\ [][Next]_vars

\* two documents that differ at most in the content of their declaration of
\* p.v (text 1 or text 2) and hold, before or after it, a marker of a with
\* id="${p.v}" and one with inline="false"; every conflict policy, with and
\* without an external datasource p
InitPrefer ==
  /\ \E styleName \in {"html", "hash"} :
       \E conflictPolicy \in {"warn", "error", "prefer_external"} :
         /\ config = Config(styleName, "lf",
                            InlineConfig(DefaultMaxBytes, DefaultAllowedFormats,
                                         conflictPolicy))
         /\ \E first \in {"DV1", "DV2"}, second \in {"DV1", "DV2"}, before \in BOOLEAN :
              disk = [f \in {"f1.md", "f2.md"} |->
                        Flatten(IF before
                                THEN <<IF f = "f1.md" THEN first ELSE second, "MP", "M">>
                                ELSE <<"M", "MP", IF f = "f1.md" THEN first ELSE second>>,
                                DEFAULT_COMMENT_STYLES[styleName].delimited)]
  /\ embeds = [n \in {"a"} |-> Embed(Str(<<"y">>))]
  /\ datasources \in Externals
  /\ dryRun = FALSE
  /\ unwritable = {}
  /\ runs = 1
  /\ InitBuild

SpecPrefer == InitPrefer /\ [][Next]_vars

\* the configurations of two targets, each with a pattern of its own
TargetsConfig(first, second) ==
  [targets |-> <<[pattern |-> first, comment_style |-> "html"],
                 [pattern |-> second, comment_style |-> "html"]>>,
   output |-> [line_ending |-> "lf"],
   inline_datasource |-> DefaultInlineConfig]

\* the lists of files handed to build: none, and lists of files on disk
SpecificFiles ==
  {<<>>, <<"f1.md">>, <<"f2.md">>, <<"f3.ts">>, <<"f1.md", "f2.md">>, <<"f2.md", "f3.ts">>}

\* three files, two targets whose patterns may match the same file, with and
\* without specificFiles
InitTargets ==
  /\ \E first \in {"md", "ts", "f1*.md"}, second \in {"md", "ts", "f1*.md"} :
       /\ first # second
       /\ config = TargetsConfig(first, second)
  /\ disk \in [{Paths[n] : n \in 1..Len(Paths)}
                -> {Flatten(<<"T">>, TRUE), Flatten(<<"SA", "EN">>, TRUE)}]
  /\ specificFiles \in SpecificFiles
  /\ embeds = [n \in {"a"} |-> Embed(Str(<<"y">>))]
  /\ datasources = <<>>
  /\ dryRun = FALSE
  /\ unwritable = {}
  /\ runs = 1
  /\ InitIdle
  /\ resolution = NoResolution

SpecTargets == InitTargets /\ [][Next]_vars

\* what a document of declarations starts with: nothing, a frontmatter block
\* with a key, or one without
Prologues == {<<>>, <<"FK">>, <<"FE">>}

\* the blank lines between the frontmatter and the body: none, one, two
BlankLines == {<<>>, <<"NL">>, <<"NL", "NL">>}

\* the bodies: declarations of q and of p.v, with prose, line breaks and a
\* marker between them
LineBodies ==
  {<<"DJ">>, <<"DV1">>, <<"DJ", "DV1">>, <<"T", "NL", "DJ">>, <<"DJ", "NL", "DV1">>,
   <<"M", "NL", "DV1">>, <<"DV1", "T", "M">>, <<"DJ", "NL", "NL", "DV2">>}

\* one document of inline data behind a frontmatter block and blank lines, a
\* delimited and a line style, one build
InitLines ==
  /\ \E styleName \in {"html", "hash"} :
       /\ config = Config(styleName, "lf", DefaultInlineConfig)
       /\ \E prologue \in Prologues, blank \in BlankLines, body \in LineBodies :
            disk = [f \in {"f1.md"} |->
                      Flatten(prologue, TRUE)
                      \o Flatten(blank \o body,
                                 DEFAULT_COMMENT_STYLES[styleName].delimited)]
  /\ embeds = [n \in {"a"} |-> Embed(Str(<<"y">>))]
  /\ datasources = <<>>
  /\ dryRun = FALSE
  /\ unwritable = {}
  /\ runs = 1
  /\ InitBuild

SpecLines == InitLines /\ [][Next]_vars

\* the pieces of a document built twice
TwiceKinds == {"T", "NL", "SA", "SB", "EN"}

\* one document, a delimited and a line style, either line ending, and
\* MaxBuilds builds in succession
InitTwice ==
  /\ \E styleName \in {"html", "hash"} :
       \E lineEnding \in {"lf", "crlf"} :
         /\ config = Config(styleName, lineEnding, DefaultInlineConfig)
         /\ \E text \in Documents(TwiceKinds, DEFAULT_COMMENT_STYLES[styleName].delimited,
                                  MaxSegs) :
              disk = [f \in {"f1.md"} |-> text]
  /\ embeds \in Registries
  /\ datasources = <<>>
  /\ dryRun = FALSE
  /\ unwritable = {}
  /\ runs = MaxBuilds
  /\ InitBuild

SpecTwice == InitTwice /\ [][Next]_vars

\* one document that can be written or not, a dry run and then a build
InitDry ==
  /\ \E styleName \in {"html", "hash"} :
       /\ config = Config(styleName, "lf", DefaultInlineConfig)
       /\ \E text \in Documents(TwiceKinds, DEFAULT_COMMENT_STYLES[styleName].delimited,
                                MaxSegs) :
            disk = [f \in {"f1.md"} |-> text]
  /\ embeds \in Registries
  /\ datasources = <<>>
  /\ dryRun = TRUE
  /\ unwritable \in SUBSET {"f1.md"}
  /\ runs = 1
  /\ InitBuild

SpecDry == InitDry /\ [][NextDry]_vars

\* the documents the graph is built from
GraphDocs ==
  {Flatten(kinds, TRUE) :
     kinds \in {<<"T">>, <<"SA", "EN">>, <<"SB", "EN">>, <<"SA", "EN", "SB", "EN">>}}

\* the datasources of the configuration: two with a file of their own, one
\* whose file is also a document of the targets, one without a file
GraphConfig ==
  [targets |-> <<[pattern |-> "md", comment_style |-> "html"],
                 [pattern |-> "ts", comment_style |-> "block"]>>,
   output |-> [line_ending |-> "lf"],
   inline_datasource |-> DefaultInlineConfig,
   datasources |-> [n \in {"db", "other", "self", "mem"} |->
                      CASE n = "db" -> [type |-> "csv", path |-> <<"data", "db.csv">>]
                        [] n = "other" -> [type |-> "csv", path |-> <<"data", "other.csv">>]
                        [] n = "self" -> [type |-> "yaml", path |-> <<"f1.md">>]
                        [] OTHER -> [type |-> "inline"]]]

\* the registries of the graph: which embeds are registered and what they
\* depend on
GraphRegistries ==
  {[n \in {"a", "b"} |->
      EmbedOn(Str(<<"y">>), IF n = "a" THEN <<"db">> ELSE <<>>)],
   [n \in {"a", "b"} |->
      EmbedOn(Str(<<"y">>), IF n = "a" THEN <<"mem", "nope">> ELSE <<"db", "other", "db">>)],
   [n \in {"b"} |-> EmbedOn(Str(<<"y">>), <<"db">>)],
   [n \in {"a", "b"} |->
      EmbedOn(Str(<<"y">>), IF n = "a" THEN <<"self">> ELSE <<>>)]}

\* three files, each a document or unreadable, and a graph not yet built
InitGraph ==
  /\ config = GraphConfig
  /\ disk \in [{Paths[n] : n \in 1..Len(Paths)} -> GraphDocs \cup {Unreadable}]
  /\ embeds \in GraphRegistries
  /\ datasources = <<>>
  /\ dryRun = FALSE
  /\ unwritable = {}
  /\ runs = 1
  /\ InitBuild

SpecGraph == InitGraph /\ [][NextGraph]_vars

\* the watch command after its first graph build, waiting for events
InitWatch ==
  /\ config = GraphConfig
  /\ disk = [f \in {"f1.md"} |-> Flatten(<<"SA", "EN">>, TRUE)]
  /\ embeds = [n \in {"a"} |-> Embed(Str(<<"y">>))]
  /\ datasources = <<>>
  /\ dryRun = FALSE
  /\ unwritable = {}
  /\ runs = 1
  /\ InitBuild

SpecWatch == InitWatch /\ [][NextWatch]_vars

\* the event loop runs every timer that is due
SpecWatchLive == SpecWatch /\ WF_vars(ProcessChanges)

\* the frontmatter of the resolver's document: a string, an object, an array
\* of objects
ResolverFrontmatter ==
  [key \in {"k", "o", "rows"} |->
     CASE key = "k" -> StrVal(<<"s">>)
       [] key = "o" -> Obj([x \in {"v"} |-> StrVal(<<"s">>)])
       [] OTHER -> Arr([x \in {"0"} |-> Obj([y \in {"name"} |-> StrVal(<<"n">>)])])]

InlineOf(name, data) ==
  [name |-> name, ds |-> InlineDatasource(data, "yaml", "f1.md", 1, 3, 4, <<>>)]

\* its inline datasources: none, or an object o (a name the frontmatter has
\* too), a text t and an array rows
ResolverInline ==
  {<<>>,
   <<InlineOf("o", Obj([x \in {"v", "rows"} |->
                          IF x = "v" THEN StrVal(<<"1">>)
                          ELSE Arr([i \in {"0"} |->
                                      Obj([y \in {"name"} |-> StrVal(<<"m">>)])])])),
     InlineOf("t", StrVal(<<"a", "b">>)),
     InlineOf("rows", Arr([i \in {"0"} |-> Obj([y \in {"name"} |-> StrVal(<<"m">>)])]))>>}

\* the paths of at most MaxPath parts
ResolverPaths == UNION {[1..n -> PathParts] : n \in 1..MaxPath}

\* the lexemes of a path: its parts with dots between
RECURSIVE Dotted(_)
Dotted(parts) ==
  IF Len(parts) = 1 THEN parts ELSE <<Head(parts), ".">> \o Dotted(Tail(parts))

\* text that is no placeholder: no path, a dot without a part, no closing brace
Malformed == {<<"${", "}">>, <<"${", "k", ".", "}">>, <<"${", "k">>, <<>>}

\* an attribute id whose value is a placeholder of a path, or text that is
\* none, with and without text before and after it
InitResolve ==
  /\ \E pre \in {<<>>, <<"x">>}, post \in {<<>>, <<"x">>}, inline \in ResolverInline :
       \/ \E path \in ResolverPaths :
            resolution = [called |-> FALSE, pre |-> pre, post |-> post, path |-> path,
                          params |-> [a \in {"id"} |->
                                        pre \o <<"${">> \o Dotted(path) \o <<"}">> \o post],
                          frontmatter |-> ResolverFrontmatter,
                          inlineDatasources |-> inline, result |-> <<>>]
       \/ \E text \in Malformed :
            resolution = [called |-> FALSE, pre |-> pre, post |-> post, path |-> <<>>,
                          params |-> [a \in {"id"} |-> pre \o text \o post],
                          frontmatter |-> ResolverFrontmatter,
                          inlineDatasources |-> inline, result |-> <<>>]
  /\ config = Config("html", "lf", DefaultInlineConfig)
  /\ disk = [f \in {"f1.md"} |-> <<>>]
  /\ embeds = [n \in {"a"} |-> Embed(Str(<<"y">>))]
  /\ datasources = <<>>
  /\ dryRun = FALSE
  /\ unwritable = {}
  /\ runs = 1
  /\ InitIdle
  /\ specificFiles = <<>>

SpecResolve == InitResolve /\ [][NextResolve]_vars

\* ------------------------------------------------ the document under check

\* the comment style of the (single) target
StyleOf == getCommentStyle(config.targets[1].comment_style).style

\* the body parseFrontmatter hands to the parsers, and its markers
BodyOf(text) == parseFrontmatter(text).content

MarkersOf(text) == parseMarkers(BodyOf(text), StyleOf)

\* offset i of a body lies strictly between the delimiters of marker m
Interior(m, i) ==
  /\ m.startIndex + Len(m.startMarkerLine) <= i
  /\ i < m.endIndex - Len(m.endMarkerLine)

\* the body without what lies strictly between the delimiters of its markers
RECURSIVE OutsideFrom(_, _, _)
OutsideFrom(body, ms, i) ==
  IF i >= Len(body) THEN <<>>
  ELSE (IF \E n \in 1..Len(ms) : Interior(ms[n], i) THEN <<>> ELSE <<At(body, i)>>)
       \o OutsideFrom(body, ms, i + 1)

\* a text without the interiors of its marker regions: the frontmatter block,
\* what stands between it and the body, and the body outside the regions
Skeleton(text) ==
  Slice(text, 0, Len(text) - Len(BodyOf(text)))
  \o OutsideFrom(BodyOf(text), MarkersOf(text), 0)

\* the results of a file, and the texts written to it
ResultsOf(f) == {n \in 1..Len(results) : results[n].filePath = f}

WritesOf(f) == {n \in 1..Len(writeLog) : writeLog[n].filePath = f}

\* the markers of a text whose embed is registered
Registered(ms) == {n \in 1..Len(ms) : ms[n].templateName \in DOMAIN embeds}

RenderOf(m) == embeds[m.templateName].render

\* ------------------------------------------------------------ the claims

\* C1: the text processFile writes differs from its input only strictly
\* between the delimiters of parsed markers: the frontmatter block, the text
\* between frontmatter and body, and the body outside the marker regions are
\* the same in both.
C1_FrameEffect ==
  \A n \in 1..Len(writeLog) :
    Skeleton(writeLog[n].content) = Skeleton(disk0[writeLog[n].filePath])

\* C4: for a marker whose embed is registered and renders the string X, the
\* region [startIndex, endIndex) is replaced by startMarkerLine X endMarkerLine
\* when the inline attribute is the literal "true", and by the same with a
\* newline before and after X for any other value of inline or none.
C4_InlineSplice ==
  [][(/\ pc = "markers"
      /\ work.sortedMarkers # <<>>
      /\ Head(work.sortedMarkers).templateName \in DOMAIN embeds
      /\ RenderOf(Head(work.sortedMarkers)).kind = "string")
     => LET marker == Head(work.sortedMarkers)
            X == RenderOf(marker).content
            literalTrue == /\ "inline" \in DOMAIN marker.params
                           /\ marker.params["inline"] = "true"
        IN work'.processedContent =
             Slice(work.processedContent, 0, marker.startIndex)
             \o marker.startMarkerLine
             \o (IF literalTrue THEN X ELSE <<"N">> \o X \o <<"N">>)
             \o marker.endMarkerLine
             \o SliceFrom(work.processedContent, marker.endIndex)]_vars

\* C4's case: an inline="true" marker and a marker without the attribute, both
\* of an embed that renders y, have been spliced in
C4_Witness ==
  /\ pc = "markers"
  /\ work.markersUpdated = 2
  /\ work.bodyContent =
       <<"O", "@a", "It", "C", "O", "@end", "C", "O", "@a", "C", "O", "@end", "C">>
  /\ work.processedContent =
       <<"O", "@a", "It", "C", "y", "O", "@end", "C",
         "O", "@a", "C", "N", "y", "N", "O", "@end", "C">>

\* a text with a start marker and no end marker anywhere after a start marker
UnterminatedOnly(text) ==
  /\ \E i \in 1..Len(text) : text[i] \in NameTags
  /\ \A i, j \in 1..Len(text) : (text[i] \in NameTags /\ i < j) => text[j] # "@end"
  /\ \A i \in 1..Len(text) : text[i] \notin DataNameTags

\* C7: in every comment style, a start marker with no end marker after it
\* yields no parsed marker and no error, and a document whose only markers are
\* unterminated is reported changed=false and is not rewritten.
C7_UnterminatedDropped ==
  \A f \in DOMAIN disk0 :
    UnterminatedOnly(disk0[f]) =>
      /\ MarkersOf(disk0[f]) = <<>>
      /\ \A n \in ResultsOf(f) :
           results[n].success /\ ~results[n].changed /\ results[n].markersUpdated = 0
      /\ WritesOf(f) = {}
      /\ disk[f] = disk0[f]

\* C7's case: the build is over a document of unterminated markers, which
\* would be rewritten if it were not left alone (it starts with a line break)
C7_Witness ==
  /\ pc = "idle"
  /\ builds = 1
  /\ \E f \in DOMAIN disk0 :
       /\ UnterminatedOnly(disk0[f])
       /\ Head(disk0[f]) = "N"
       /\ ResultsOf(f) # {}

\* C10: a marker whose render returns null or undefined keeps its region and
\* is not counted in markersUpdated; when every marker of the document returns
\* null or undefined the result has changed=false and markersUpdated=0.
C10_NullPreserved ==
  \A n \in 1..Len(results) :
    LET ms == MarkersOf(disk0[results[n].filePath])
        strings == {k \in Registered(ms) : RenderOf(ms[k]).kind = "string"}
    IN results[n].success =>
         /\ results[n].markersUpdated = Cardinality(strings)
         /\ (strings = {} => ~results[n].changed)
\* the declarations processFile hands to buildInlineDatasources for a text
DeclsOf(text) ==
  ShiftLines(parseInlineDataMarkers(BodyOf(text), StyleOf),
             FrontmatterLineOffset(parseFrontmatter(text).raw))

\* the inline datasources built from a text, as the entries of the Map
BuiltOf(f) == buildInlineDatasources(DeclsOf(disk0[f]), f, config.inline_datasource)

\* the names of the entries of a Map of inline datasources
NamesOf(entries) == {entries[n].name : n \in 1..Len(entries)}

\* the calls of render capabilities made for a file
RendersOf(f) == {n \in 1..Len(renderLog) : renderLog[n].filePath = f}

\* C5: when an inline datasource is named like an external one, policy error
\* fails the document before any render and any write; prefer_external gives
\* every render the external datasource under that name; warn gives it the
\* inline one.
C5_ConflictPolicy ==
  \A f \in DOMAIN disk0 :
    LET policy == config.inline_datasource.conflictPolicy
        inline == BuiltOf(f).entries
    IN \A N \in NamesOf(inline) \cap DOMAIN datasources :
         /\ policy = "error" =>
              /\ \A n \in ResultsOf(f) : ~results[n].success
              /\ RendersOf(f) = {}
              /\ WritesOf(f) = {}
              /\ (pc = "markers" => work.filePath # f)
         /\ policy = "prefer_external" =>
              \A n \in RendersOf(f) : renderLog[n].datasources[N] = datasources[N]
         /\ policy = "warn" =>
              \A n \in RendersOf(f) :
                renderLog[n].datasources[N] = Head(InlineEntry(inline, N)).ds

\* C5's case: under prefer_external a render capability was called for a
\* document whose inline datasource p meets the external p
C5_Witness ==
  /\ config.inline_datasource.conflictPolicy = "prefer_external"
  /\ \E f \in DOMAIN disk0 :
       /\ RendersOf(f) # {}
       /\ "p" \in NamesOf(BuiltOf(f).entries) \cap DOMAIN datasources

\* C6: of two or more declarations with the same dotted name root.sub, the
\* last in document order gives the value the datasource of root holds at sub,
\* and get(sub) returns it.
C6_LastWriteWins ==
  pc = "markers" =>
    \A i, j \in 1..Len(work.inlineDataMarkers) :
      LET decls == work.inlineDataMarkers
          last == /\ i < j
                  /\ Len(decls[j].name) = 2
                  /\ decls[i].name = decls[j].name
                  /\ \A k \in (j + 1)..Len(decls) : decls[k].name # decls[j].name
          entry == InlineEntry(work.inlineDatasources, decls[j].name[1])
          decoded == parseInlineContent(decls[j].content, decls[j].format,
                                        config.inline_datasource.stripCodeFences)
      IN last =>
           /\ entry # <<>>
           /\ Head(entry).ds.data.m[decls[j].name[2]] = decoded
           /\ DatasourceGet(Head(entry).ds, Tail(decls[j].name)) = decoded

\* C6's case: p.v is declared as 2 and later as 1, and the root p (which has
\* v: 0) is declared too
C6_Witness ==
  /\ pc = "markers"
  /\ \E i, j, k \in 1..Len(work.inlineDataMarkers) :
       /\ i < j
       /\ work.inlineDataMarkers[i].name = <<"p", "v">>
       /\ work.inlineDataMarkers[i].content = <<"2">>
       /\ work.inlineDataMarkers[j].name = <<"p", "v">>
       /\ work.inlineDataMarkers[j].content = <<"1">>
       /\ work.inlineDataMarkers[k].name = <<"p">>

\* a declaration that fails validation
Invalid(d) ==
  \/ d.byteSize > config.inline_datasource.maxBytes
  \/ d.format \notin config.inline_datasource.allowedFormats

\* C9: if any declaration of a document is larger than maxBytes or of a format
\* not allowed, buildInlineDatasources throws and returns no datasource, and
\* processFile calls no render capability, writes nothing and returns
\* success=false.
C9_ValidationFailsFast ==
  \A f \in DOMAIN disk0 :
    LET decls == DeclsOf(disk0[f])
        built == buildInlineDatasources(decls, f, config.inline_datasource)
    IN (\E n \in 1..Len(decls) : Invalid(decls[n])) =>
         /\ ~built.ok
         /\ built.entries = <<>>
         /\ \A n \in ResultsOf(f) : ~results[n].success /\ results[n].error = "validation"
         /\ RendersOf(f) = {}
         /\ WritesOf(f) = {}
         /\ disk[f] = disk0[f]
         /\ (pc = "markers" => work.filePath # f)

\* C9's case: the build is over a document with a marker, a valid declaration
\* and a declaration of a format that is not allowed
C9_Witness ==
  /\ pc = "idle"
  /\ builds = 1
  /\ \E f \in DOMAIN disk0 :
       LET decls == DeclsOf(disk0[f])
       IN /\ ResultsOf(f) # {}
          /\ MarkersOf(disk0[f]) # <<>>
          /\ \E n \in 1..Len(decls) : ~Invalid(decls[n])
          /\ \E n \in 1..Len(decls) :
               /\ decls[n].format \notin config.inline_datasource.allowedFormats
               /\ decls[n].byteSize <= config.inline_datasource.maxBytes
\* the files build enumerates, target after target
RECURSIVE Enumerated(_)
Enumerated(n) ==
  IF n > Len(config.targets) THEN <<>>
  ELSE getTargetFiles(config.targets[n]) \o Enumerated(n + 1)

\* the comment style of the target that enumerates a file
FileStyle(f) ==
  getCommentStyle(
    (CHOOSE t \in {config.targets[n] : n \in 1..Len(config.targets)} :
       t.pattern = Ext(f)).comment_style).style

\* a registered marker of the text has a render capability that throws
SomeRenderThrows(text, style) ==
  LET ms == parseMarkers(BodyOf(text), style)
  IN \E n \in Registered(ms) : RenderOf(ms[n]).kind = "throw"

\* why a file of the batch fails ('': it does not)
Failure(f) ==
  LET text == disk0[f]
      style == FileStyle(f)
      decls == parseInlineDataMarkers(BodyOf(text), style)
      built == buildInlineDatasources(decls, f, config.inline_datasource)
  IN IF text = Unreadable THEN "read"
     ELSE IF \E n \in 1..Len(decls) : Invalid(decls[n]) THEN "validation"
     ELSE IF /\ NamesOf(built.entries) \cap DOMAIN datasources # {}
             /\ config.inline_datasource.conflictPolicy = "error" THEN "conflict"
     ELSE IF SomeRenderThrows(text, style) THEN "render"
     ELSE ""

\* C8: build's result list has one entry per enumerated file in enumeration
\* order; a file that is unreadable, fails validation, conflicts or whose
\* render capability throws has success=false with the error, and the files
\* after it are still processed.
C8_FailureIsolation ==
  /\ Len(results) <= Len(Enumerated(1))
  /\ \A n \in 1..Len(results) :
       /\ results[n].filePath = Enumerated(1)[n]
       /\ results[n].error = Failure(results[n].filePath)
       /\ results[n].success = (Failure(results[n].filePath) = "")
  /\ (pc = "idle" /\ builds >= 1) => Len(results) = Len(Enumerated(1))

\* C8's case: the build is over three files of which the first and the second
\* failed (a render capability threw, the file could not be read) and the
\* third was processed
C8_Witness ==
  /\ pc = "idle"
  /\ builds = 1
  /\ Len(results) = 3
  /\ results[1].error = "render"
  /\ results[2].error = "read"
  /\ results[3].success
  /\ results[3].markersUpdated = 1
  /\ WritesOf(results[3].filePath) # {}
\* the second build is running or has just returned
SecondBuild == (builds = 1 /\ pc # "idle") \/ (builds = 2 /\ pc = "idle")

\* C2: with fixed documents and deterministic render capabilities, under lf
\* and under crlf, the second of two builds in succession reports
\* changed=false for every document and writes no file.
C2_Idempotent ==
  SecondBuild => /\ \A n \in 1..Len(results) : ~results[n].changed
                 /\ writeLog = <<>>

\* the elements of a sequence
Range(seq) == {seq[n] : n \in 1..Len(seq)}

\* a readable document of the targets has a marker naming the registered embed
References(f, E) ==
  /\ f \in Range(Enumerated(1))
  /\ disk[f] # Unreadable
  /\ E \in DOMAIN embeds
  /\ \E m \in Range(parseMarkers(BodyOf(disk[f]), FileStyle(f))) : m.templateName = E

\* the path is a document of the targets
IsDocument(path) == \E f \in Range(Enumerated(1)) : resolve(PathOf(f)) = resolve(path)

\* the path is a .ts file of the embeds directory named like an embed that a
\* document references (or like its camelCase form)
IsEmbedSource(path) ==
  /\ EndsWithTs(path)
  /\ SubSeq(resolve(path), 1, Len(resolve(path)) - 1) = EmbedsDir
  /\ \E f \in DOMAIN disk, E \in DOMAIN embeds :
       References(f, E) /\ E \in {FileName(path), SnakeCase(FileName(path))}

\* the path is the configured path of a datasource
IsDatasourcePath(path) ==
  \E dsName \in DOMAIN config.datasources :
    /\ DatasourcePath(config, dsName) # <<>>
    /\ resolve(DatasourcePath(config, dsName)) = resolve(path)

\* after build(), getAffectedDocuments of the path of a datasource contains
\* every document with a marker naming a registered embed that depends on it
C3_Propagates ==
  query.built =>
    \A f \in DOMAIN disk, E \in DOMAIN embeds :
      \A dsName \in Range(embeds[E].dependsOn) :
        (/\ References(f, E)
         /\ DatasourcePath(config, dsName) # <<>>
         /\ resolve(DatasourcePath(config, dsName)) = resolve(query.changedPath))
        => resolve(PathOf(f)) \in Range(query.affected)

\* after build(), getAffectedDocuments of a path that is no document, no
\* source file of a referenced embed and no configured datasource path is empty
C3_UnrelatedEmpty ==
  (/\ query.built
   /\ query.changedPath # <<>>
   /\ ~IsDocument(query.changedPath)
   /\ ~IsEmbedSource(query.changedPath)
   /\ ~IsDatasourcePath(query.changedPath))
  => query.affected = <<>>

\* C3: after DependencyGraph.build(), getAffectedDocuments(DB) contains every
\* document D with a marker naming a registered embed whose dependsOn lists a
\* datasource of configured path DB; and for a changed path that is no
\* document, no source file of a referenced embed and no configured datasource
\* path it returns the empty list.
C3_DependencyPropagation == C3_Propagates /\ C3_UnrelatedEmpty

\* ------------------------------------------------------- the watch command

\* the invocations of processChanges that have not returned
Running == {b \in DOMAIN watch.batches : watch.batches[b].pc # "returned"}

\* C11: processChanges is never entered while an earlier invocation has not
\* returned: at most one invocation is between its entry and its return.
C11_OneBatchAtATime == Cardinality(Running) <= 1

\* the batches started before the n-th entry of the log
BatchesBefore(n) == Cardinality({j \in 1..(n - 1) : watchLog[j].kind = "batch"})

\* the events that arrived after batch k - 1 started and before batch k did
EventsOf(k) == {n \in Events : BatchesBefore(n) = k - 1}

\* the map the events of that span went to: the snapshot of batch k, or the
\* pending map while batch k has not started
ChangesOf(k) ==
  IF k <= Len(watch.batches) THEN watch.batches[k].changes ELSE watch.pendingChanges

\* every event is in the map of its span and of no other, under its path,
\* with the type of the last event of that path; events not yet taken have a
\* timer pending; and no two timers are pending
QueueKept ==
  /\ \A k \in 1..(Len(watch.batches) + 1) :
       /\ DOMAIN ChangesOf(k) = {watchLog[n].path : n \in EventsOf(k)}
       /\ \A n \in EventsOf(k) :
            (\A j \in EventsOf(k) : j > n => watchLog[j].path # watchLog[n].path)
            => ChangesOf(k)[watchLog[n].path] = watchLog[n].type
  /\ watch.pendingChanges # <<>> => watch.timers # {}
  /\ Cardinality(watch.timers) <= 1

\* C12: every change or add event is part of exactly the batch that starts
\* next after it, events of one path before a batch collapse into one entry,
\* events after a snapshot wait for a later batch, at most one debounce timer
\* is pending, and every pending event is eventually taken by a batch.
C12_ChangeQueue ==
  /\ []QueueKept
  /\ (watch.pendingChanges # <<>>) ~> (watch.pendingChanges = <<>>)

\* two batches, the first of two events of one path spelled relative and
\* absolute, the second of an event that arrived while the first was building
C12_Witness ==
  /\ Len(watch.batches) = 2
  /\ Cardinality(EventsOf(1)) = 2
  /\ Cardinality(DOMAIN watch.batches[1].changes) = 1
  /\ watch.batches[1].pc = "build"
  /\ Cardinality(EventsOf(2)) = 1

\* C13: no datasource handle set is closed while a build that was given it is
\* still running, and every build runs on handles made for it.
C13_HandlesOpenDuringBuild ==
  \A b \in DOMAIN watch.batches :
    watch.batches[b].pc = "build" => watch.batches[b].handles \notin watch.closed

\* ------------------------------------------------- the dependency graph

\* the node the last query was about, when the graph has one under that path
Asked == resolve(query.changedPath)

\* the documents of the targets that can be read and have a marker naming E
Referencing(E) == {resolve(PathOf(f)) : f \in {g \in DOMAIN disk : References(g, E)}}

SourceNames(E) == IF E = "b" THEN {"b.ts", "B.ts"} ELSE IF E = "a" THEN {"a.ts"} ELSE {}

\* the changed path is the source file, in the embeds directory, of the
\* registered embed E
SourceOf(path, E) ==
  /\ path # <<>>
  /\ SubSeq(resolve(path), 1, Len(resolve(path)) - 1) = EmbedsDir
  /\ E \in DOMAIN embeds
  /\ path[Len(path)] \in SourceNames(E)

Leaves(E) == \A d \in Referencing(E) : depGraph.nodes[d].dependedBy = <<>>

Edges(k, field) == Range(depGraph.nodes[k][field])

\* C20: in every state of build() the edges are mutual inverses, b.path in
\* a.dependsOn exactly when a.path in b.dependedBy, and every path of either
\* set is the key of a node.
C20_EdgesInverse ==
  /\ \A a \in DOMAIN depGraph.nodes, b \in DOMAIN depGraph.nodes :
       depGraph.nodes[b].path \in Edges(a, "dependsOn")
       <=> depGraph.nodes[a].path \in Edges(b, "dependedBy")
  /\ \A a \in DOMAIN depGraph.nodes :
       Edges(a, "dependsOn") \cup Edges(a, "dependedBy") \subseteq DOMAIN depGraph.nodes

\* build() is at work and a document, an embed and a datasource are linked
C20_Witness ==
  /\ depGraph.pc = "analyze"
  /\ \E d \in DOMAIN depGraph.nodes, e \in DOMAIN depGraph.nodes,
        s \in DOMAIN depGraph.nodes :
       /\ depGraph.nodes[d].type = "document"
       /\ depGraph.nodes[e].type = "embed"
       /\ depGraph.nodes[s].type = "datasource"
       /\ e \in Edges(d, "dependsOn")
       /\ s \in Edges(e, "dependsOn")
       /\ e \in Edges(s, "dependedBy")

\* ------------------------------------------------------------- the dry run

\* the build after the dry run has returned
BothRan == builds = 2 /\ pc = "idle"

\* the dry run wrote nothing, and the build called the same capabilities with
\* the same contexts in the same order
SameCalls ==
  /\ earlier.writeLog = <<>>
  /\ earlier.disk = disk0
  /\ renderLog = earlier.renderLog
  /\ Len(results) = Len(earlier.results)

\* C16 as stated: with dryRun the same render capabilities are invoked in the
\* same order, success, changed and markersUpdated are those of the run
\* without dryRun, and no file is written.
C16_DryRunSame ==
  BothRan =>
    /\ SameCalls
    /\ \A n \in 1..Len(results) :
         /\ results[n].success = earlier.results[n].success
         /\ results[n].changed = earlier.results[n].changed
         /\ results[n].markersUpdated = earlier.results[n].markersUpdated

\* C16, amended: the same, except that success differs when the write of the
\* run without dryRun fails: that run reports success false, the dry run true.
C16_DryRunSameUpToWrite ==
  BothRan =>
    /\ SameCalls
    /\ \A n \in 1..Len(results) :
         /\ results[n].changed = earlier.results[n].changed
         /\ results[n].markersUpdated = earlier.results[n].markersUpdated
         /\ IF results[n].changed /\ results[n].filePath \in unwritable
            THEN ~results[n].success /\ earlier.results[n].success
            ELSE results[n].success = earlier.results[n].success

\* a document with two markers was rendered dry and then written
C16_Witness ==
  /\ BothRan
  /\ Len(renderLog) = 2
  /\ Len(earlier.renderLog) = 2
  /\ results[1].changed
  /\ earlier.results[1].changed
  /\ earlier.writeLog = <<>>
  /\ Len(writeLog) = 1

\* ------------------------------------------------------ the splice offsets

\* the markers still to be processed are in descending order of startIndex
Descending(ms) ==
  \A n \in 1..(Len(ms) - 1) : ms[n].startIndex > ms[n + 1].startIndex

\* C19: markers are handled in descending startIndex order, and when a marker
\* of a registered embed is about to be spliced the working text between its
\* startIndex and endIndex is still startMarkerLine, existingContent and
\* endMarkerLine as parsed, also when a start marker lies inside another
\* marker's region.
C19_OffsetsValid ==
  (pc = "markers" /\ work.sortedMarkers # <<>>) =>
    /\ Descending(work.sortedMarkers)
    /\ LET marker == Head(work.sortedMarkers)
       IN marker.templateName \in DOMAIN embeds =>
            Slice(work.processedContent, marker.startIndex, marker.endIndex)
            = marker.startMarkerLine \o marker.existingContent \o marker.endMarkerLine

\* ------------------------------------------------ the variable resolver

\* the steps of a path: its parts, an index [n] being a step of its own
RECURSIVE Steps(_)
Steps(path) ==
  IF path = <<>> THEN <<>>
  ELSE (IF Head(path) = "rows[0]" THEN <<"rows", "0">> ELSE <<Head(path)>>)
       \o Steps(Tail(path))

\* a value followed along steps: undefined at a missing key and at a step
\* into what is no object and no array
RECURSIVE Follow(_, _)
Follow(current, steps) ==
  IF steps = <<>> THEN current
  ELSE IF current.t \in {"obj", "arr"} /\ Head(steps) \in DOMAIN current.m
  THEN Follow(current.m[Head(steps)], Tail(steps))
  ELSE Undefined

\* the inline datasources of the call named like the root identifier
NamedInline(path) ==
  SelectSeq(resolution.inlineDatasources, LAMBDA e : e.name = Head(Steps(path)))

\* what the placeholder of a path stands for: the rest of the path in the
\* inline datasource of the root identifier, else the path in frontmatter
Looked(path) ==
  IF NamedInline(path) # <<>>
  THEN Follow(Head(NamedInline(path)).ds.data, Tail(Steps(path)))
  ELSE Follow(Obj(resolution.frontmatter), Steps(path))

\* the resolver has returned for a placeholder of a path
Resolved == resolution.called /\ resolution.path # <<>>

\* C17: the resolver returns for every input; text that is no placeholder is
\* returned as it is, the text before and after a placeholder is kept, and a
\* placeholder whose path meets a missing key or steps into a non-object, a
\* null or an undefined value is replaced by the empty string.
C17_BestEffort ==
  resolution.called =>
    IF resolution.path = <<>>
    THEN resolution.result = resolution.params
    ELSE Looked(resolution.path).t = "undefined" =>
           resolution.result.id = resolution.pre \o resolution.post

\* C18: a placeholder is replaced by the text of the value its path leads to,
\* the root identifier looked up among the inline datasources first and in
\* frontmatter otherwise, [n] indexing arrays at every position of the path.
C18_Lookup ==
  Resolved =>
    resolution.result.id
    = resolution.pre \o StringOf(Looked(resolution.path)) \o resolution.post

\* ------------------------------------------------ the traversal of the graph

\* the keys reachable from the keys of a set along dependedBy edges
RECURSIVE Reachable(_)
Reachable(keys) ==
  LET next == keys \cup UNION {Range(depGraph.nodes[k].dependedBy) \cap DOMAIN depGraph.nodes :
                                 k \in keys}
  IN IF next = keys THEN keys ELSE Reachable(next)

\* the node the last query started from (<<>>: none)
Start == StartNode(depGraph.nodes, query.changedPath)

\* C21: getAffectedDocuments returns, also on a graph with a cycle along
\* dependedBy edges, and its result is without duplicates the document nodes
\* reachable from the start node along dependedBy edges, the start node included.
C21_TraversalExact ==
  (query.built /\ Start # <<>>) =>
    /\ Cardinality(Range(query.affected)) = Len(query.affected)
    /\ Range(query.affected)
       = {k \in Reachable({Start}) : depGraph.nodes[k].type = "document"}

\* the query started on a cycle: a document that is the datasource file of an
\* embed it references, with another document behind that embed
C21_Witness ==
  /\ query.built
  /\ Start # <<>>
  /\ \E k \in Range(depGraph.nodes[Start].dependedBy) : Start \in Reachable({k})
  /\ Len(query.affected) = 2

\* ------------------------------------------------ the graph of watch mode

\* C22: in watch mode getAffectedDocuments is never evaluated on a graph
\* whose build() has started and not completed.
C22_QueriedBetweenRebuilds ==
  \A b \in DOMAIN watch.batches : ~watch.batches[b].partial

\* ------------------------------------------- the policy prefer_external

\* the calls of render capabilities for a file, in order
CallsOf(f) == SelectSeq(renderLog, LAMBDA ctx : ctx.filePath = f)

\* what a render capability receives but for the path of its document
Received(ctx) == [params |-> ctx.params, datasources |-> ctx.datasources]

\* both documents are processed, under prefer_external and with an external
\* datasource named as the root of their declarations
Preferred ==
  /\ pc = "idle"
  /\ builds = 1
  /\ config.inline_datasource.conflictPolicy = "prefer_external"
  /\ "p" \in DOMAIN datasources

\* C23: under prefer_external two documents that differ only in the content
\* of an inline declaration whose root name is that of an external datasource
\* hand every render capability the same datasources and the same resolved
\* params: ${p.v} is not resolved against the inline data.
C23_InlineDropped ==
  Preferred =>
    /\ Len(CallsOf("f1.md")) = Len(CallsOf("f2.md"))
    /\ \A n \in 1..Len(CallsOf("f1.md")) :
         Received(CallsOf("f1.md")[n]) = Received(CallsOf("f2.md")[n])

\* ------------------------------------------------- the markers of a text

\* the lexemes of a body from offset lo up to offset hi are white space
Blank(body, lo, hi) == \A k \in lo..(hi - 1) : IsSpace(At(body, k))

\* an end marker stands at offset i of a body: the opening delimiter, the tag
\* @embedoc:end, and the closing delimiter or, in a line style, the end of a
\* line, with nothing but white space between them
IsEndMarker(body, i, delimited) ==
  /\ i < Len(body)
  /\ At(body, i) = "O"
  /\ \E j \in (i + 1)..(Len(body) - 1) :
       /\ At(body, j) = "@end"
       /\ Blank(body, i + 1, j)
       /\ IF delimited
          THEN \E c \in (j + 1)..(Len(body) - 1) :
                 At(body, c) = "C" /\ Blank(body, j + 1, c)
          ELSE \E e \in (j + 1)..Len(body) :
                 /\ e = Len(body) \/ At(body, e) \in {"N", "R"}
                 /\ Blank(body, j + 1, e)

\* marker m of a body: its offsets are ordered, its three parts are the text
\* between them, its tag is not the end tag, its end delimiter is an end
\* marker and no end marker starts in its existing content
WellFormed(body, m, delimited) ==
  /\ m.startIndex < m.endIndex
  /\ Slice(body, m.startIndex, m.endIndex)
     = m.startMarkerLine \o m.existingContent \o m.endMarkerLine
  /\ m.templateName # "end"
  /\ \E j \in (m.startIndex + 1)..(Len(body) - 1) :
       At(body, j) \in NameTags /\ Blank(body, m.startIndex + 1, j)
  /\ IsEndMarker(body, m.endIndex - Len(m.endMarkerLine), delimited)
  /\ \A i \in (m.startIndex + Len(m.startMarkerLine))
              ..(m.endIndex - Len(m.endMarkerLine) - 1) :
       ~IsEndMarker(body, i, delimited)

\* C24: every marker parseMarkers returns has startIndex < endIndex, the text
\* between the two is startMarkerLine, existingContent and endMarkerLine, its
\* end marker is the nearest end marker after its start marker, its name is
\* not end, and the markers come in ascending startIndex order, in every style.
C24_MarkersWellFormed ==
  pc = "markers" =>
    /\ \A n \in 1..Len(work.markers) :
         WellFormed(work.bodyContent, work.markers[n], StyleOf.delimited)
    /\ \A n \in 1..(Len(work.markers) - 1) :
         work.markers[n].startIndex < work.markers[n + 1].startIndex

\* two markers of a line style, each with an end marker of its own
C24_Witness ==
  /\ pc = "markers"
  /\ ~StyleOf.delimited
  /\ Len(work.markers) = 2
  /\ work.markers[1].endIndex < work.markers[2].endIndex

\* ------------------------------------------------- the markers of the output

\* the (templateName, params) of the markers of a text, in order
Shape(text) ==
  [n \in 1..Len(MarkersOf(text)) |->
     <<MarkersOf(text)[n].templateName, MarkersOf(text)[n].params>>]

\* what a rewrite puts between the delimiters of marker m of the input
Rendered(m) ==
  IF m.templateName \notin DOMAIN embeds THEN m.existingContent
  ELSE IF "inline" \in DOMAIN m.params /\ m.params["inline"] = "true"
  THEN RenderOf(m).content
  ELSE <<"N">> \o RenderOf(m).content \o <<"N">>

\* every registered embed of the markers of a text renders a string (of the
\* registries: text without a comment delimiter and without a marker)
RendersText(text) ==
  \A n \in Registered(MarkersOf(text)) : RenderOf(MarkersOf(text)[n]).kind = "string"

\* C25: when the render outputs hold no comment delimiter and no marker text,
\* the text processFile writes parses to the same sequence of (templateName,
\* params) as its input, and the existingContent of each marker of the output
\* is the render output (between line breaks unless inline), in every style.
C25_StructureSurvives ==
  \A n \in 1..Len(writeLog) :
    LET before == disk0[writeLog[n].filePath]
        after == writeLog[n].content
    IN RendersText(before) =>
         /\ Shape(after) = Shape(before)
         /\ \A k \in 1..Len(MarkersOf(before)) :
              MarkersOf(after)[k].existingContent = Rendered(MarkersOf(before)[k])

\* ------------------------------------------------ the result of a failure

\* C26: a result with success false reports changed false and markersUpdated
\* 0, and the file it is about is as it was before the build, so that the sum
\* of markersUpdated counts the markers of successful documents only.
C26_FailureReportsNoEffect ==
  \A n \in 1..Len(results) :
    ~results[n].success =>
      /\ ~results[n].changed
      /\ results[n].markersUpdated = 0
      /\ disk[results[n].filePath] = disk0[results[n].filePath]

\* ------------------------------------------------- the files of a build

\* C27: within one build no file path appears twice in the results, and every
\* file processed matches the pattern of some target, for every configuration
\* of several targets and every specificFiles list.
C27_ProcessedOnce ==
  /\ \A m, n \in 1..Len(results) : m # n => results[m].filePath # results[n].filePath
  /\ \A n \in 1..Len(results) :
       \E k \in 1..Len(config.targets) :
         Matches(results[n].filePath, config.targets[k].pattern)

\* ------------------------------------------- the provenance of inline data

\* the property path a declaration is recorded under in its root's datasource
PropertyPathOf(name) == IF Len(name) = 1 THEN RootPath ELSE Tail(name)

\* declaration j is the last of its name in document order
LastOfName(decls, j) == \A k \in (j + 1)..Len(decls) : decls[k].name # decls[j].name

\* C28: for every built inline datasource and every declared property path,
\* getMeta returns the start and end lines of the declaration whose decoded
\* content is the value at that path: the last declaration of the path in
\* document order when it is declared more than once.
C28_MetaOfLastDeclaration ==
  pc = "markers" =>
    \A j \in 1..Len(work.inlineDataMarkers) :
      LET decls == work.inlineDataMarkers
          entry == InlineEntry(work.inlineDatasources, decls[j].name[1])
          meta == getMeta(Head(entry).ds, PropertyPathOf(decls[j].name))
      IN LastOfName(decls, j) =>
           /\ entry # <<>>
           /\ meta # NoLocation
           /\ meta.startLine = decls[j].startLine
           /\ meta.endLine = decls[j].endLine

\* --------------------------------------------- a root block and dot paths

\* the decoded content of a declaration
Decoded(d) ==
  parseInlineContent(d.content, d.format, config.inline_datasource.stripCodeFences)

\* the declarations of a list with a given name, in document order
Named(decls, name) == SelectSeq(decls, LAMBDA d : d.name = name)

\* C29: the datasource of a root that has a root-level declaration holds, for
\* every key of the root block, the value of the last declaration root.key
\* when there is one, wherever the root block stands, and the value of the
\* root block otherwise.
C29_RootThenDotPaths ==
  pc = "markers" =>
    \A n \in 1..Len(work.inlineDatasources) :
      LET decls == work.inlineDataMarkers
          root == work.inlineDatasources[n].name
          data == work.inlineDatasources[n].ds.data
          block == Decoded(Head(Named(decls, <<root>>)))
      IN (Named(decls, <<root>>) # <<>> /\ block.t = "obj") =>
           /\ data.t = "obj"
           /\ \A key \in DOMAIN block.m :
                LET dotted == Named(decls, <<root, key>>)
                IN /\ key \in DOMAIN data.m
                   /\ data.m[key] = IF dotted = <<>> THEN block.m[key]
                                     ELSE Decoded(dotted[Len(dotted)])

\* the root block of p (v: 0, w: 9) stands after a declaration of p.v, and
\* the datasource holds the declared v beside the w of the block
C29_Witness ==
  /\ pc = "markers"
  /\ Len(work.inlineDataMarkers) >= 2
  /\ work.inlineDataMarkers[1].name = <<"p", "v">>
  /\ work.inlineDataMarkers[2].name = <<"p">>
  /\ InlineEntry(work.inlineDatasources, "p") # <<>>
  /\ Head(InlineEntry(work.inlineDatasources, "p")).ds.data.m["v"]
     = Decoded(work.inlineDataMarkers[1])
  /\ "w" \in DOMAIN Head(InlineEntry(work.inlineDatasources, "p")).ds.data.m

\* ------------------------------------------------- the lines of inline data

\* the positions of the lexemes of a set in a text, in ascending order
PositionsOf(text, lexemes) ==
  SelectSeq([i \in 1..Len(text) |-> i], LAMBDA i : text[i] \in lexemes)

\* the 1-based number of the line on which position i of a text stands
LineOf(text, i) == 1 + Cardinality({k \in 1..(i - 1) : text[k] = "N"})

\* C30: with or without frontmatter, and with any number of blank lines
\* between frontmatter and body, the startLine and endLine processFile gives
\* each inline data declaration are the 1-based line numbers of its start and
\* of its end marker in the file.
C30_LinesOfTheFile ==
  pc = "markers" =>
    \A n \in 1..Len(work.inlineDataMarkers) :
      /\ work.inlineDataMarkers[n].startLine
         = LineOf(work.content, PositionsOf(work.content, DataNameTags)[n])
      /\ work.inlineDataMarkers[n].endLine
         = LineOf(work.content, PositionsOf(work.content, {"$end"})[n])

====
